---- MODULE Spec2Model ----
(***************************************************************************)
(* Legal-rules retrieval engine of the chatbase client: the rules loader   *)
(* (utils/rulesLoader), the normalizer (utils/rulesNormalizer), the        *)
(* embeddings generator with its localStorage cache                        *)
(* (utils/embeddingsGenerator) and the LegalRulesRAG singleton             *)
(* (utils/legalRulesRAG.js).                                               *)
(*                                                                         *)
(* JavaScript strings are sequences of one-character strings, so that      *)
(* toLowerCase and includes are computed and not assumed.  Every await of  *)
(* the code is a point where another caller's continuation may run; the    *)
(* code between two awaits is one atomic action.                           *)
(***************************************************************************)
EXTENDS Integers, Sequences, FiniteSets, TLC

VARIABLES
    corpusFile,           \* what /data/us-legal-rules.jsonc parses to (a static asset)
    rulesData,            \* rulesLoader module variable `rulesData`
    openaiKey,            \* whether REACT_APP_OPENAI_API_KEY is set in this build
    normalizedRules,      \* LegalRulesRAG.normalizedRules
    rulesWithEmbeddings,  \* LegalRulesRAG.rulesWithEmbeddings
    isLoaded,             \* LegalRulesRAG.isLoaded
    embeddingsReady,      \* LegalRulesRAG.embeddingsReady
    metadata,             \* LegalRulesRAG.metadata
    storage,              \* localStorage['legal-rules-embeddings']
    now,                  \* Date.now()
    calls,                \* the asynchronous calls in flight, one slot per caller
    last,                 \* what the most recently settled call returned and did
    embeddingsCache,      \* legalSemanticSearch module variable `embeddingsCache`
    cacheTimestamp,       \* legalSemanticSearch module variable `cacheTimestamp`
    requests,             \* the retrieval requests the serverless function is serving
    served,               \* what the latest step of a retrieval request did
    batch,                \* a run of generateEmbeddingsBatch and its caller
    fn                    \* one evaluation of cosineSimilarity or of the top-K ranking

\* the browser-side engine
clientVars == <<rulesData, normalizedRules, rulesWithEmbeddings, isLoaded,
                embeddingsReady, metadata, storage, calls, last>>

\* the serverless function
serverVars == <<embeddingsCache, cacheTimestamp, requests, served>>

\* what the actions of the browser-side engine leave alone
otherVars == <<serverVars, batch, fn>>

vars == <<corpusFile, openaiKey, now, clientVars, otherVars>>

(***************************************************************************)
(* Bounds of the model.                                                    *)
(***************************************************************************)
MaxClockSlack == 1   \* the clock runs up to maxAge + MaxClockSlack
MaxDim == 3          \* cosineSimilarity is evaluated on vectors of up to MaxDim components
MaxCandidates == 3   \* the ranking is evaluated on up to MaxCandidates candidates
MaxTexts == 3        \* generateEmbeddingsBatch is called with up to MaxTexts texts
MaxBatchSize == 2    \* and with a batchSize of 1..MaxBatchSize or the default
MaxRecords == 2      \* loadLegalRules is evaluated on files of up to MaxRecords records

(***************************************************************************)
(* Strings.                                                                *)
(***************************************************************************)
Undefined == "undefined"

LowerChar(c) ==
    CASE c = "P" -> "p"
      [] c = "A" -> "a"
      [] c = "Y" -> "y"
      [] c = "R" -> "r"
      [] c = "B" -> "b"
      [] c = "G" -> "g"
      [] c = "E" -> "e"
      [] OTHER -> c

\* String.prototype.toLowerCase
ToLowerCase(s) == [i \in 1..Len(s) |-> LowerChar(s[i])]

\* String.prototype.includes
Includes(s, q) ==
    \E i \in 0..(Len(s) - Len(q)) :
        \A j \in 1..Len(q) : s[i + j] = q[j]

RECURSIVE JoinLines(_)
\* Array.prototype.join('\n')
JoinLines(parts) ==
    IF parts = <<>> THEN <<>>
    ELSE IF Len(parts) = 1 THEN parts[1]
    ELSE parts[1] \o <<"\n">> \o JoinLines(Tail(parts))

\* Array.prototype.slice(0, k): a negative k counts from the end
Slice0(arr, k) ==
    LET n   == Len(arr)
        end == IF k < 0 THEN (IF n + k < 0 THEN 0 ELSE n + k)
               ELSE (IF k > n THEN n ELSE k)
    IN  SubSeq(arr, 1, end)

RECURSIVE SelectSeqIdx(_, _, _)
\* the indices i (ascending, from `from`) of arr with keep[i]
SelectSeqIdx(keep, from, n) ==
    IF from > n THEN <<>>
    ELSE (IF keep[from] THEN <<from>> ELSE <<>>) \o SelectSeqIdx(keep, from + 1, n)

\* Array.prototype.filter
Filter(arr, keep) ==
    LET idx == SelectSeqIdx(keep, 1, Len(arr))
    IN  [i \in 1..Len(idx) |-> arr[idx[i]]]

(***************************************************************************)
(* Rule records of the corpus file.  A missing string field is the empty   *)
(* string and a missing contract_types is the empty array: JavaScript      *)
(* treats both as the loader does.                                         *)
(***************************************************************************)
sRulePrefix == <<"R", "u", "l", "e", ":", " ">>
sBadPrefix  == <<"B", "a", "d", " ", "e", "x", "a", "m", "p", "l", "e", ":", " ">>
sGoodPrefix == <<"G", "o", "o", "d", " ", "e", "x", "a", "m", "p", "l", "e", ":", " ">>
sExplPrefix == <<"E", "x", "p", "l", "a", "n", "a", "t", "i", "o", "n", ":", " ">>

RuleA ==
    [rule_id |-> <<"A", "1">>, rule |-> <<"P", "a", "y">>,
     bad_example |-> <<>>, good_example |-> <<>>, explanation |-> <<>>,
     severity |-> "high", contract_types |-> <<"NDA">>, category |-> <<"c">>,
     jurisdiction |-> <<>>, reference |-> <<>>]

RuleB ==
    [rule_id |-> <<"b", "2">>, rule |-> <<"t", "a", "x">>,
     bad_example |-> <<>>, good_example |-> <<>>, explanation |-> <<"y">>,
     severity |-> "low", contract_types |-> <<"NDA", "MSA">>, category |-> <<>>,
     jurisdiction |-> <<>>, reference |-> <<>>]

\* a record the validator rejects: severity outside low/medium/high
RuleBadSeverity == [RuleB EXCEPT !.rule_id = <<"c", "3">>, !.severity = "urgent"]

\* a record the validator rejects: no rule_id
RuleNoId == [RuleA EXCEPT !.rule_id = <<>>]

NoMetadata == [present |-> FALSE, version |-> Undefined, jurisdiction |-> <<>>]
Meta(v) == [present |-> TRUE, version |-> v, jurisdiction |-> <<"U", "S">>]

\* what JSON.parse of the fetched corpus file can yield
Dataset(hasRules, rs, m) ==
    [loaded |-> TRUE, hasRules |-> hasRules, rules |-> rs, metadata |-> m]

Corpora ==
    { Dataset(TRUE, <<RuleA, RuleB>>, Meta("1.0")),
      Dataset(TRUE, <<RuleA, RuleB>>, Meta("2.0")),
      Dataset(TRUE, <<RuleB>>, NoMetadata),
      Dataset(TRUE, <<RuleA, RuleBadSeverity>>, Meta("1.0")),
      Dataset(TRUE, <<RuleNoId>>, Meta("1.0")),
      Dataset(TRUE, <<>>, Meta("1.0")),
      Dataset(FALSE, <<>>, Meta("1.0")) }

\* rulesData before the first successful fetch (null)
NoData == [loaded |-> FALSE]

(***************************************************************************)
(* rulesLoader                                                             *)
(***************************************************************************)
validSeverities == {"low", "medium", "high"}

\* validateRule(rule, index).isValid
validateRule(rule) ==
    /\ rule.rule_id # <<>>
    /\ rule.rule # <<>>
    /\ rule.severity # ""
    /\ rule.contract_types # <<>>
    /\ rule.severity \in validSeverities

\* the object the catch block of loadLegalRules() resolves to
LoadFailed == [success |-> FALSE, rules |-> <<>>, metadata |-> NoMetadata]

\* the object loadLegalRules() resolves to once rulesData is `data`
LoadResult(data) ==
    IF ~data.loaded
    THEN LoadFailed
    ELSE IF ~data.hasRules
    THEN [success |-> FALSE, rules |-> <<>>, metadata |-> data.metadata]
    ELSE LET keep == [i \in 1..Len(data.rules) |-> validateRule(data.rules[i])]
         IN  [success  |-> \A i \in 1..Len(data.rules) : keep[i],
              rules    |-> Filter(data.rules, keep),
              metadata |-> data.metadata]

(***************************************************************************)
(* rulesNormalizer                                                         *)
(***************************************************************************)
IsSpace(c) == c \in {" ", "\n"}

RECURSIVE TrimStart(_)
TrimStart(s) == IF s # <<>> /\ IsSpace(Head(s)) THEN TrimStart(Tail(s)) ELSE s

RECURSIVE TrimEnd(_)
TrimEnd(s) ==
    IF s # <<>> /\ IsSpace(s[Len(s)]) THEN TrimEnd(SubSeq(s, 1, Len(s) - 1)) ELSE s

\* String.prototype.trim
Trim(s) == TrimEnd(TrimStart(s))

\* normalizeRule(rule, jurisdiction)
normalizeRule(rule, jurisdiction) ==
    LET textParts ==
            <<sRulePrefix \o rule.rule>>
            \o (IF rule.bad_example # <<>> THEN <<sBadPrefix \o rule.bad_example>> ELSE <<>>)
            \o (IF rule.good_example # <<>> THEN <<sGoodPrefix \o rule.good_example>> ELSE <<>>)
            \o (IF rule.explanation # <<>> THEN <<sExplPrefix \o rule.explanation>> ELSE <<>>)
    IN  [id   |-> rule.rule_id,
         text |-> Trim(JoinLines(textParts)),
         metadata |-> [jurisdiction   |-> IF rule.jurisdiction # <<>>
                                          THEN rule.jurisdiction ELSE jurisdiction,
                       severity       |-> rule.severity,
                       contract_types |-> rule.contract_types,
                       category       |-> rule.category,
                       reference      |-> rule.reference]]

\* normalizeAllRules(rulesData)
normalizeAllRules(result) ==
    LET jurisdiction == IF result.metadata.present /\ result.metadata.jurisdiction # <<>>
                        THEN result.metadata.jurisdiction ELSE <<"U", "S">>
    IN  [i \in 1..Len(result.rules) |-> normalizeRule(result.rules[i], jurisdiction)]

(***************************************************************************)
(* embeddingsGenerator: the provider, similarity and top-K                 *)
(***************************************************************************)
DefaultBatchSize == 100

\* the vectors the stub provider may answer with
ProviderVectors == { <<1, 0>>, <<0, 1>> }

\* a successful embeddings.create response for n inputs: one vector each,
\* neighbours differing
ProviderResponses(n) ==
    { [i \in 1..n |-> IF i % 2 = 0 THEN <<1, 0>> ELSE <<0, 1>>] }

RECURSIVE SumTo(_, _)
SumTo(f, n) == IF n = 0 THEN 0 ELSE f[n] + SumTo(f, n - 1)

Sign(x) == IF x > 0 THEN 1 ELSE IF x < 0 THEN 0 - 1 ELSE 0

\* Math.sqrt(a) * Math.sqrt(b) in IEEE-754 doubles against the real
\* sqrt(a * b), for sums of squares up to 4: above it for 2 and 2
\* (2.0000000000000004), below it for 3 and 3 (2.9999999999999996), and not
\* to be told from it in any comparison made here otherwise
SqrtProductBias(a, b) ==
    IF a = 2 /\ b = 2 THEN 1
    ELSE IF a = 3 /\ b = 3 THEN 0 - 1
    ELSE 0

\* cosineSimilarity(vecA, vecB): the double it returns is the real
\* num / sqrt(den2), moved off it by rounding in the direction err
cosineSimilarity(vecA, vecB) ==
    IF Len(vecA) # Len(vecB)
    THEN [threw |-> TRUE, num |-> 0, den2 |-> 1, err |-> 0]
    ELSE LET n          == Len(vecA)
             dotProduct == SumTo([i \in 1..n |-> vecA[i] * vecB[i]], n)
             magnitudeA == SumTo([i \in 1..n |-> vecA[i] * vecA[i]], n)
             magnitudeB == SumTo([i \in 1..n |-> vecB[i] * vecB[i]], n)
         IN  IF magnitudeA = 0 \/ magnitudeB = 0
             THEN [threw |-> FALSE, num |-> 0, den2 |-> 1, err |-> 0]
             ELSE [threw |-> FALSE, num |-> dotProduct,
                   den2 |-> magnitudeA * magnitudeB,
                   err |-> 0 - Sign(dotProduct)
                               * SqrtProductBias(magnitudeA, magnitudeB)]

\* x.num / sqrt(x.den2) > y.num / sqrt(y.den2), as real numbers
RealGreater(x, y) ==
    LET l == x.num * x.num * y.den2
        r == y.num * y.num * x.den2
    IN  IF x.num >= 0 /\ y.num < 0 THEN TRUE
        ELSE IF x.num < 0 /\ y.num >= 0 THEN FALSE
        ELSE IF x.num >= 0 THEN l > r
        ELSE l < r

\* x > y for two doubles cosineSimilarity returned
ScoreGreater(x, y) ==
    \/ RealGreater(x, y)
    \/ ~RealGreater(y, x) /\ x.err > y.err

\* a sort that puts the later of two equal scores first
RECURSIVE InsertByScoreTiesFirst(_, _)
InsertByScoreTiesFirst(sorted, r) ==
    IF sorted = <<>> THEN <<r>>
    ELSE IF ~ScoreGreater(Head(sorted).similarityScore, r.similarityScore)
    THEN <<r>> \o sorted
    ELSE <<Head(sorted)>> \o InsertByScoreTiesFirst(Tail(sorted), r)

RECURSIVE InsertByScore(_, _)
\* where a stable descending sort puts r among the already sorted earlier ones
InsertByScore(sorted, r) ==
    IF sorted = <<>> THEN <<r>>
    ELSE IF ScoreGreater(r.similarityScore, Head(sorted).similarityScore)
    THEN <<r>> \o sorted
    ELSE <<Head(sorted)>> \o InsertByScore(Tail(sorted), r)

RECURSIVE SortByScoreDesc(_)
\* Array.prototype.sort((a, b) => b.similarityScore - a.similarityScore), stable
SortByScoreDesc(arr) ==
    IF arr = <<>> THEN <<>>
    ELSE InsertByScore(SortByScoreDesc(SubSeq(arr, 1, Len(arr) - 1)), arr[Len(arr)])

\* an embedded rule: the normalized rule plus its embedding property
WithEmbedding(rule, vec) ==
    [id |-> rule.id, text |-> rule.text, metadata |-> rule.metadata, embedding |-> vec]

\* generateRuleEmbeddings: attach embeddings[index] to every rule
AttachEmbeddings(normalized, embeddings) ==
    [i \in 1..Len(normalized) |->
        WithEmbedding(normalized[i],
                      IF i <= Len(embeddings) THEN embeddings[i] ELSE <<>>)]

\* semanticSearch after the query embedding arrived
RankRules(queryEmbedding, candidates, topK) ==
    LET sims == [i \in 1..Len(candidates) |->
                    cosineSimilarity(queryEmbedding, candidates[i].embedding)]
    IN  IF \E i \in 1..Len(candidates) : sims[i].threw
        THEN [threw |-> TRUE, value |-> <<>>]
        ELSE LET rulesWithScores ==
                     [i \in 1..Len(candidates) |->
                         [id |-> candidates[i].id, text |-> candidates[i].text,
                          metadata |-> candidates[i].metadata,
                          embedding |-> candidates[i].embedding,
                          similarityScore |-> [num |-> sims[i].num, den2 |-> sims[i].den2,
                                              err |-> sims[i].err]]]
             IN  [threw |-> FALSE,
                  value |-> Slice0(SortByScoreDesc(rulesWithScores), topK)]

(***************************************************************************)
(* embeddingsGenerator: the localStorage cache                             *)
(***************************************************************************)
\* 7 * 24 * 60 * 60 * 1000
maxAge == 604800000

DefaultVersion == "2.0"

\* a default parameter replaces undefined
VersionParam(version) == IF version = Undefined THEN DefaultVersion ELSE version

\* localStorage values: nothing stored, a string JSON.parse rejects, the
\* string "null", or a JSON object
Absent     == [kind |-> "absent"]
Garbage    == [kind |-> "garbage"]
StoredNull == [kind |-> "null"]
StoredObject(version, hasTimestamp, timestamp, hasRules, rs) ==
    [kind |-> "object", version |-> version, hasTimestamp |-> hasTimestamp,
     timestamp |-> timestamp, hasRules |-> hasRules, rules |-> rs]

\* a cache entry stamped with the epoch instead of the time of writing
CacheDataEpochStamp(rs, version, time) ==
    StoredObject(VersionParam(version), TRUE, 0, TRUE, rs)

\* JSON.stringify({ version, timestamp: Date.now(), rules })
CacheData(rs, version, time) ==
    StoredObject(VersionParam(version), TRUE, time, TRUE, rs)

\* the value of localStorage after cacheEmbeddings; setItem may throw (quota)
cacheEmbeddings(stored, rs, version, time, setItemOk) ==
    IF setItemOk THEN CacheData(rs, version, time) ELSE stored

\* the body with an entry already expired at the age of maxAge
loadCachedBodyExpiresAtMaxAge(stored, version, time) ==
    LET miss == [threw |-> FALSE, isNull |-> TRUE, rules |-> <<>>]
        fail == [threw |-> TRUE, isNull |-> TRUE, rules |-> <<>>]
    IN  IF stored.kind = "absent" THEN miss
        ELSE IF stored.kind = "garbage" THEN fail
        ELSE IF stored.kind = "null" THEN fail
        ELSE IF stored.version # VersionParam(version) THEN miss
        ELSE IF stored.hasTimestamp /\ time - stored.timestamp >= maxAge THEN miss
        ELSE IF ~stored.hasRules THEN fail
        ELSE [threw |-> FALSE, isNull |-> FALSE, rules |-> stored.rules]

\* the body without the comparison of versions
loadCachedBodyAnyVersion(stored, version, time) ==
    LET miss == [threw |-> FALSE, isNull |-> TRUE, rules |-> <<>>]
        fail == [threw |-> TRUE, isNull |-> TRUE, rules |-> <<>>]
    IN  IF stored.kind = "absent" THEN miss
        ELSE IF stored.kind = "garbage" THEN fail
        ELSE IF stored.kind = "null" THEN fail
        ELSE IF stored.hasTimestamp /\ time - stored.timestamp > maxAge THEN miss
        ELSE IF ~stored.hasRules THEN fail
        ELSE [threw |-> FALSE, isNull |-> FALSE, rules |-> stored.rules]

\* the body of loadCachedEmbeddings inside its try: threw when JSON.parse or a
\* property access raises (of null, or of rules that are undefined), isNull
\* when it answers null
loadCachedBody(stored, version, time) ==
    LET miss == [threw |-> FALSE, isNull |-> TRUE, rules |-> <<>>]
        fail == [threw |-> TRUE, isNull |-> TRUE, rules |-> <<>>]
    IN  IF stored.kind = "absent" THEN miss
        ELSE IF stored.kind = "garbage" THEN fail
        ELSE IF stored.kind = "null" THEN fail
        ELSE IF stored.version # VersionParam(version) THEN miss
        ELSE IF stored.hasTimestamp /\ time - stored.timestamp > maxAge THEN miss
        ELSE IF ~stored.hasRules THEN fail
        ELSE [threw |-> FALSE, isNull |-> FALSE, rules |-> stored.rules]

\* loadCachedEmbeddings without its try and catch
loadCachedEmbeddingsNoCatch(stored, version, time) ==
    loadCachedBody(stored, version, time)

\* loadCachedEmbeddings(version): the catch turns every exception into null
loadCachedEmbeddings(stored, version, time) ==
    LET r == loadCachedBody(stored, version, time)
    IN  IF r.threw THEN [threw |-> FALSE, isNull |-> TRUE, rules |-> <<>>] ELSE r

(***************************************************************************)
(* LegalRulesRAG                                                           *)
(***************************************************************************)
\* the fields of the singleton that some method reads (`rules` is only
\* ever assigned)
This ==
    [normalizedRules |-> normalizedRules,
     rulesWithEmbeddings |-> rulesWithEmbeddings, isLoaded |-> isLoaded,
     embeddingsReady |-> embeddingsReady, metadata |-> metadata]

\* constructor()
NewRAG ==
    [normalizedRules |-> <<>>, rulesWithEmbeddings |-> <<>>,
     isLoaded |-> FALSE, embeddingsReady |-> FALSE, metadata |-> NoMetadata]

SetThis(t) ==
    /\ normalizedRules' = t.normalizedRules
    /\ rulesWithEmbeddings' = t.rulesWithEmbeddings
    /\ isLoaded' = t.isLoaded
    /\ embeddingsReady' = t.embeddingsReady
    /\ metadata' = t.metadata

\* initialize(useCache) from the moment loadLegalRules() has resolved to
\* `result` up to its return or its call of generateEmbeddings():
\* next is "false" (return false), "true" (return true) or "generate";
\* cached is what loadCachedEmbeddings answered, when it was asked
initialize(this, result, useCache, stored, time) ==
    LET notAsked == [threw |-> FALSE, isNull |-> TRUE, rules |-> <<>>]
    IN  IF ~result.success
        THEN [this |-> this, next |-> "false", asked |-> FALSE, cached |-> notAsked]
        ELSE LET loaded == [this EXCEPT !.normalizedRules = normalizeAllRules(result),
                                        !.metadata = result.metadata,
                                        !.isLoaded = TRUE]
                 cached == loadCachedEmbeddings(stored, loaded.metadata.version, time)
             IN  IF ~useCache
                 THEN [this |-> loaded, next |-> "generate", asked |-> FALSE,
                       cached |-> notAsked]
                 ELSE IF cached.threw
                 THEN [this |-> loaded, next |-> "false", asked |-> TRUE,
                       cached |-> cached]
                 ELSE IF ~cached.isNull
                         /\ Len(cached.rules) = Len(loaded.normalizedRules)
                 THEN [this |-> [loaded EXCEPT !.rulesWithEmbeddings = cached.rules,
                                               !.embeddingsReady = TRUE],
                       next |-> "true", asked |-> TRUE, cached |-> cached]
                 ELSE [this |-> loaded, next |-> "generate", asked |-> TRUE,
                       cached |-> cached]

\* generateEmbeddings(): the try block once generateRuleEmbeddings resolved
generateEmbeddingsResolved(this, normalized, embeddings) ==
    [this EXCEPT !.rulesWithEmbeddings = AttachEmbeddings(normalized, embeddings),
                 !.embeddingsReady = TRUE]

\* a catch block that leaves the flag as it was
generateEmbeddingsRejectedKeepsFlag(this) == this

\* generateEmbeddings(): the catch block
generateEmbeddingsRejected(this) == [this EXCEPT !.embeddingsReady = FALSE]

\* searchRules comparing without toLowerCase
searchRulesCaseSensitive(this, query) ==
    IF ~this.isLoaded \/ query = <<>>
    THEN <<>>
    ELSE LET nr == this.normalizedRules
         IN  Filter(nr, [i \in 1..Len(nr) |->
                            \/ Includes(nr[i].text, query)
                            \/ Includes(nr[i].id, query)])

\* searchRules(query)
searchRules(this, query) ==
    IF ~this.isLoaded \/ query = <<>>
    THEN <<>>
    ELSE LET lowerQuery == ToLowerCase(query)
             nr         == this.normalizedRules
         IN  Filter(nr, [i \in 1..Len(nr) |->
                            \/ Includes(ToLowerCase(nr[i].text), lowerQuery)
                            \/ Includes(ToLowerCase(nr[i].id), lowerQuery)])

\* searchRelevantRules(query, topK) when embeddingsReady is false
keywordFallback(this, query, topK) == Slice0(searchRules(this, query), topK)

\* searchRelevantRules without the catch around semanticSearch
semanticResultNoCatch(r) == r

\* searchRelevantRules: what it answers when semanticSearch settled with `r`
semanticResult(r) ==
    IF r.threw THEN [threw |-> FALSE, value |-> <<>>] ELSE r

(***************************************************************************)
(* Callers and the record of the latest step                               *)
(***************************************************************************)
\* two callers, whose asynchronous calls may overlap
Callers == {1, 2}

Idle == [op |-> "idle"]

\* the queries and topK values callers pass
\* "PAY" is in the text of RuleA only and "B" in the id of RuleB only, both
\* in another letter case; "e" is in every text
sPAY == <<"P", "A", "Y">>
sB   == <<"B">>
sE   == <<"e">>
SearchArgs ==
    { <<sPAY, 5>>, <<sB, 5>>, <<sE, 1>>, <<sE, -1>>, << <<>>, 5 >> }

\* the slot a new call takes: the first one without a call in flight
FreeSlot(p) == calls[p] = Idle /\ \A q \in Callers : q < p => calls[q] # Idle

\* the step a caller's call took last: what it returned (when it settled),
\* what it consulted, and the orchestrator flags it started from
NoStep ==
    [op |-> "none", settled |-> FALSE, raised |-> FALSE,
     ok |-> FALSE, result |-> <<>>, load |-> "none", valid |-> 0,
     lookup |-> "none", lookupRules |-> <<>>, usedCache |-> FALSE,
     provider |-> "none", generated |-> FALSE, genCount |-> 0,
     wrote |-> FALSE, providerCalls |-> 0,
     preLoaded |-> FALSE, preReady |-> FALSE, useCache |-> FALSE,
     query |-> <<>>, topK |-> 0]

StepOf(op) ==
    [NoStep EXCEPT !.op = op,
                   !.preLoaded = isLoaded, !.preReady = embeddingsReady]

\* a call of initialize or generateEmbeddings waiting for the provider
EmbedCall(op, normalized) ==
    [op |-> op, pc |-> "embed", normalized |-> normalized,
     batchSize |-> DefaultBatchSize, i |-> 0, embeddings |-> <<>>]

InitStorage ==
    LET ab == normalizeAllRules(LoadResult(Dataset(TRUE, <<RuleA, RuleB>>, Meta("1.0"))))
        b  == normalizeAllRules(LoadResult(Dataset(TRUE, <<RuleB>>, NoMetadata)))
    IN  { Absent, Garbage,
          StoredObject("1.0", TRUE, 0, TRUE, AttachEmbeddings(ab, << <<1, 0>>, <<0, 1>> >>)),
          StoredObject("2.0", TRUE, 0, TRUE, AttachEmbeddings(b, <<>>)) }

(***************************************************************************)
(* The serverless function, generateEmbeddingsBatch and the pure functions *)
(* before anything has run                                                 *)
(***************************************************************************)
\* the retrieval requests the function instance serves at a time
Requesters == {1, 2}

\* let embeddingsCache = null
NoSlot == [set |-> FALSE, rules |-> <<>>]

\* let cacheTimestamp = null: null and 0 are one value here, the only read
\* of cacheTimestamp is its truth value before any arithmetic
NoTimestamp == 0

NoServed == [op |-> "none"]

\* a freshly started function instance
ServerCold ==
    /\ embeddingsCache = NoSlot
    /\ cacheTimestamp = NoTimestamp
    /\ requests = [r \in Requesters |-> Idle]
    /\ served = NoServed

\* no run of generateEmbeddingsBatch
NoBatch == [status |-> "none"]

\* no evaluation of a pure function
NoEvaluation == [op |-> "none"]

Init ==
    /\ corpusFile \in Corpora
    /\ rulesData = NoData
    /\ openaiKey \in BOOLEAN
    /\ normalizedRules = NewRAG.normalizedRules
    /\ rulesWithEmbeddings = NewRAG.rulesWithEmbeddings
    /\ isLoaded = NewRAG.isLoaded
    /\ embeddingsReady = NewRAG.embeddingsReady
    /\ metadata = NewRAG.metadata
    /\ storage \in InitStorage
    /\ now = 0
    /\ calls = [p \in Callers |-> Idle]
    /\ last = NoStep
    /\ ServerCold
    /\ batch = NoBatch
    /\ fn = NoEvaluation

(***************************************************************************)
(* initialize                                                              *)
(***************************************************************************)
\* initialize() running on from the resolved loadLegalRules() to its return
\* or to the provider call of generateEmbeddings()
InitializeProceed(p, useCache, result, step) ==
    LET o       == initialize(This, result, useCache, storage, now)
        nokey   == o.next = "generate" /\ ~openaiKey
        pending == o.next = "generate" /\ openaiKey
        final   == IF nokey THEN generateEmbeddingsRejected(o.this) ELSE o.this
    IN  /\ SetThis(final)
        /\ calls' = [calls EXCEPT ![p] =
                        IF pending
                        THEN EmbedCall("initialize", final.normalizedRules)
                        ELSE Idle]
        /\ last' = [step EXCEPT !.settled = ~pending,
                                !.ok = (o.next # "false"),
                                !.useCache = useCache,
                                !.load = IF result.success THEN "ok" ELSE "failed",
                                !.valid = Len(result.rules),
                                !.lookup = IF ~o.asked THEN "none"
                                           ELSE IF o.cached.threw THEN "threw"
                                           ELSE IF o.cached.isNull THEN "null"
                                           ELSE "rules",
                                !.lookupRules = o.cached.rules,
                                !.usedCache = (o.next = "true"),
                                !.provider = IF nokey THEN "nokey" ELSE "none",
                                !.providerCalls =
                                    IF pending /\ Len(final.normalizedRules) > 0
                                    THEN 1 ELSE 0]
        /\ UNCHANGED <<corpusFile, storage, now, openaiKey, otherVars>>

\* initialize(useCache) is called: with rulesData already set loadLegalRules
\* resolves at once, otherwise the corpus file is fetched
InitializeCall(p, useCache) ==
    /\ FreeSlot(p)
    /\ IF rulesData.loaded
       THEN /\ InitializeProceed(p, useCache, LoadResult(rulesData),
                                 StepOf("initialize"))
            /\ UNCHANGED rulesData
       ELSE /\ calls' = [calls EXCEPT ![p] =
                            [op |-> "initialize", pc |-> "fetch", useCache |-> useCache]]
            /\ last' = [StepOf("initialize") EXCEPT !.useCache = useCache]
            /\ UNCHANGED <<corpusFile, rulesData, openaiKey, normalizedRules,
                           rulesWithEmbeddings, isLoaded, embeddingsReady,
                           metadata, storage, now, otherVars>>

\* the fetch of the corpus file settles: it fails (network error, or text
\* JSON.parse rejects) or yields a dataset that becomes rulesData
FetchSettle(p) ==
    /\ calls[p].op = "initialize"
    /\ calls[p].pc = "fetch"
    /\ \/ /\ InitializeProceed(p, calls[p].useCache, LoadFailed,
                               StepOf("initialize"))
          /\ UNCHANGED rulesData
       \/ /\ rulesData' = corpusFile
          /\ InitializeProceed(p, calls[p].useCache, LoadResult(corpusFile),
                               StepOf("initialize"))

(***************************************************************************)
(* generateEmbeddings                                                      *)
(***************************************************************************)
\* generateEmbeddings() is called directly
GenerateEmbeddingsCall(p) ==
    /\ FreeSlot(p)
    /\ IF openaiKey
       THEN /\ calls' = [calls EXCEPT ![p] =
                            EmbedCall("generateEmbeddings", normalizedRules)]
            /\ last' = [StepOf("generateEmbeddings") EXCEPT
                            !.providerCalls = IF Len(normalizedRules) > 0 THEN 1 ELSE 0]
            /\ UNCHANGED <<normalizedRules, rulesWithEmbeddings, isLoaded,
                           embeddingsReady, metadata>>
       ELSE /\ SetThis(generateEmbeddingsRejected(This))
            /\ calls' = calls
            /\ last' = [StepOf("generateEmbeddings") EXCEPT
                            !.settled = TRUE, !.ok = FALSE, !.provider = "nokey"]
    /\ UNCHANGED <<corpusFile, rulesData, openaiKey, storage, now, otherVars>>

BatchInclusiveEnd(c) ==
    SubSeq(c.normalized, c.i + 1,
           IF c.i + c.batchSize + 1 < Len(c.normalized)
           THEN c.i + c.batchSize + 1 ELSE Len(c.normalized))

\* the texts generateEmbeddingsBatch sends in the request that is in flight
Batch(c) ==
    SubSeq(c.normalized, c.i + 1,
           IF c.i + c.batchSize < Len(c.normalized)
           THEN c.i + c.batchSize ELSE Len(c.normalized))

\* the batch loop has run to its end: generateEmbeddings() attaches the
\* embeddings, raises the flag and caches them
GenerationResolved(p, c, embeddings, step) ==
    \E setItemOk \in BOOLEAN :
        LET t == generateEmbeddingsResolved(This, c.normalized, embeddings)
        IN  /\ SetThis(t)
            /\ storage' = cacheEmbeddings(storage, t.rulesWithEmbeddings,
                                          t.metadata.version, now, setItemOk)
            /\ calls' = [calls EXCEPT ![p] = Idle]
            /\ last' = [step EXCEPT !.settled = TRUE, !.ok = TRUE,
                                    !.generated = TRUE,
                                    !.genCount = Len(c.normalized),
                                    !.wrote = setItemOk]

\* the embeddings request in flight settles (or there was nothing to send)
EmbedSettle(p) ==
    LET c    == calls[p]
        step == [StepOf(c.op) EXCEPT
                    !.providerCalls = IF c.i < Len(c.normalized) THEN 1 ELSE 0]
    IN  /\ c.op \in {"initialize", "generateEmbeddings"}
        /\ c.pc = "embed"
        /\ IF c.i >= Len(c.normalized)
           THEN GenerationResolved(p, c, c.embeddings, step)
           ELSE \/ /\ SetThis(generateEmbeddingsRejected(This))
                   /\ calls' = [calls EXCEPT ![p] = Idle]
                   /\ last' = [step EXCEPT !.settled = TRUE,
                                           !.ok = (c.op = "initialize"),
                                           !.provider = "failed"]
                   /\ UNCHANGED storage
                \/ \E response \in ProviderResponses(Len(Batch(c))) :
                       LET embeddings == c.embeddings \o response
                           i          == c.i + c.batchSize
                       IN  IF i < Len(c.normalized)
                           THEN /\ calls' = [calls EXCEPT ![p] =
                                                [c EXCEPT !.i = i,
                                                          !.embeddings = embeddings]]
                                /\ last' = [step EXCEPT !.provider = "ok"]
                                /\ UNCHANGED <<normalizedRules,
                                               rulesWithEmbeddings, isLoaded,
                                               embeddingsReady, metadata, storage>>
                           ELSE GenerationResolved(p, c, embeddings,
                                                   [step EXCEPT !.provider = "ok"])
        /\ UNCHANGED <<corpusFile, rulesData, openaiKey, now, otherVars>>

(***************************************************************************)
(* searchRelevantRules                                                     *)
(***************************************************************************)
\* searchRelevantRules(query, topK), from its call to its return.  With
\* embeddingsReady it awaits the provider for the query embedding; the code
\* after that await works on the array it was handed at the call and on
\* nothing of the orchestrator, so the call is one step.
SearchRelevantRules(query, topK) ==
    LET step == [StepOf("searchRelevantRules") EXCEPT
                    !.query = query, !.topK = topK, !.settled = TRUE]
        failed == semanticResult([threw |-> TRUE, value |-> <<>>])
    IN  /\ IF ~embeddingsReady
           THEN last' = [step EXCEPT !.result = keywordFallback(This, query, topK)]
           ELSE IF ~openaiKey
           THEN last' = [step EXCEPT !.provider = "nokey", !.raised = failed.threw,
                                     !.result = failed.value]
           ELSE \/ last' = [step EXCEPT !.provider = "failed", !.providerCalls = 1,
                                        !.raised = failed.threw,
                                        !.result = failed.value]
                \/ \E queryEmbedding \in ProviderVectors :
                       LET r == semanticResult(RankRules(queryEmbedding,
                                                         rulesWithEmbeddings, topK))
                       IN  last' = [step EXCEPT !.provider = "ok", !.providerCalls = 1,
                                                !.raised = r.threw, !.result = r.value]
        /\ UNCHANGED <<corpusFile, rulesData, openaiKey, normalizedRules,
                       rulesWithEmbeddings, isLoaded, embeddingsReady, metadata,
                       storage, now, calls, otherVars>>

(***************************************************************************)
(* Environment                                                             *)
(***************************************************************************)
\* the instants the clock is read at
ClockValues == {0} \cup { maxAge + k : k \in 0..MaxClockSlack }

\* time passes
Tick ==
    /\ \E t \in ClockValues :
           /\ t > now
           /\ now' = t
    /\ last' = NoStep
    /\ UNCHANGED <<corpusFile, rulesData, openaiKey, normalizedRules,
                   rulesWithEmbeddings, isLoaded, embeddingsReady, metadata,
                   storage, calls, otherVars>>

Next ==
    \/ \E p \in Callers, useCache \in BOOLEAN : InitializeCall(p, useCache)
    \/ \E p \in Callers : FetchSettle(p)
    \/ \E p \in Callers : GenerateEmbeddingsCall(p)
    \/ \E p \in Callers : EmbedSettle(p)
    \/ \E a \in SearchArgs : SearchRelevantRules(a[1], a[2])
    \/ Tick

Spec == Init /\ [][Next]_vars

(***************************************************************************)
(* The cache lookup of initialize on its own: the loader has run (the      *)
(* useLegalRules hook calls loadLegalRules by itself), localStorage holds  *)
(* any entry an earlier session, another tab or the user may have left,    *)
(* and the clock stands around the TTL                                     *)
(***************************************************************************)
\* the rules of the two-rule and of the one-rule corpus with vectors
EmbeddedAB ==
    AttachEmbeddings(
        normalizeAllRules(LoadResult(Dataset(TRUE, <<RuleA, RuleB>>, Meta("1.0")))),
        << <<1, 0>>, <<0, 1>> >>)

EmbeddedB ==
    AttachEmbeddings(
        normalizeAllRules(LoadResult(Dataset(TRUE, <<RuleB>>, NoMetadata))),
        << <<1, 0>> >>)

\* what localStorage.getItem('legal-rules-embeddings') may return
CacheEntries ==
    {Absent, Garbage, StoredNull}
        \cup { StoredObject(v, hasTimestamp, 0, hasRules, rs) :
                   v \in {"1.0", "2.0"}, hasTimestamp \in BOOLEAN,
                   hasRules \in BOOLEAN, rs \in {EmbeddedAB, EmbeddedB} }

\* the instants around the expiry of an entry written at 0
CacheClock == { maxAge + k : k \in (0 - MaxClockSlack)..MaxClockSlack }

InitCache ==
    /\ corpusFile \in Corpora
    /\ rulesData = corpusFile
    /\ openaiKey \in BOOLEAN
    /\ normalizedRules = NewRAG.normalizedRules
    /\ rulesWithEmbeddings = NewRAG.rulesWithEmbeddings
    /\ isLoaded = NewRAG.isLoaded
    /\ embeddingsReady = NewRAG.embeddingsReady
    /\ metadata = NewRAG.metadata
    /\ storage \in CacheEntries
    /\ now \in CacheClock
    /\ calls = [p \in Callers |-> Idle]
    /\ last = NoStep
    /\ ServerCold
    /\ batch = NoBatch
    /\ fn = NoEvaluation

NextCache ==
    \/ \E p \in Callers, useCache \in BOOLEAN : InitializeCall(p, useCache)
    \/ \E p \in Callers : EmbedSettle(p)

SpecCache == InitCache /\ [][NextCache]_vars

(***************************************************************************)
(* The serverless function legalSemanticSearch: one process-local cache    *)
(* slot shared by the requests a warm instance serves                      *)
(***************************************************************************)
\* 1 hour
CACHE_TTL == 3600000

sUndefined  == <<"u", "n", "d", "e", "f", "i", "n", "e", "d">>
sSeparator  == <<" ", "|", " ">>
sCategory   == <<"C", "a", "t", "e", "g", "o", "r", "y", ":", " ">>
sBadExample == <<"B", "a", "d", " ", "E", "x", "a", "m", "p", "l", "e", ":", " ">>
sGoodExample == <<"G", "o", "o", "d", " ", "E", "x", "a", "m", "p", "l", "e", ":", " ">>

\* `${value}` in a template literal: a missing field prints as undefined
Interpolate(value) == IF value = <<>> THEN sUndefined ELSE value

\* normalizeRule(rule) of the function: all four parts, joined by ' | '
serverNormalizeRule(rule) ==
    [id       |-> rule.rule_id,
     text     |-> sRulePrefix \o Interpolate(rule.rule) \o sSeparator
                  \o sCategory \o Interpolate(rule.category) \o sSeparator
                  \o sBadExample \o Interpolate(rule.bad_example) \o sSeparator
                  \o sGoodExample \o Interpolate(rule.good_example),
     metadata |-> [category |-> rule.category, severity |-> rule.severity,
                   contract_types |-> rule.contract_types]]

\* loadRulesData() and rulesData.rules.map(normalizeRule): threw when no file
\* is found, when JSON.parse rejects it or when it has no rules array
serverLoadRules(file) ==
    IF ~file.loaded \/ ~file.hasRules
    THEN [threw |-> TRUE, rules |-> <<>>]
    ELSE [threw |-> FALSE,
          rules |-> [i \in 1..Len(file.rules) |-> serverNormalizeRule(file.rules[i])]]

\* the validity test of ensureEmbeddingsCache with the test at the TTL included
cacheIsValidThroughTTL(cache, timestamp, time) ==
    cache.set /\ timestamp # NoTimestamp /\ time - timestamp <= CACHE_TTL

\* embeddingsCache && cacheTimestamp && (now - cacheTimestamp) < CACHE_TTL
cacheIsValid(cache, timestamp, time) ==
    cache.set /\ timestamp # NoTimestamp /\ time - timestamp < CACHE_TTL

\* the files a deployment may ship: two corpora, a file without rules array,
\* no file at all
ServerFiles ==
    { Dataset(TRUE, <<RuleA, RuleB>>, Meta("1.0")),
      Dataset(TRUE, <<RuleB>>, NoMetadata),
      Dataset(FALSE, <<>>, Meta("1.0")),
      NoData }

\* the instants requests arrive at: the first one, and those around the
\* expiry of a slot filled by the first
ServerClock == {1} \cup { CACHE_TTL + k : k \in 0..MaxClockSlack }

ServerArgs == { <<sPAY, 5>>, <<sE, 1>> }

\* the step of request r, with the slot as it was before the step
ServedStep(op, r) ==
    [op |-> op, r |-> r, slotBefore |-> embeddingsCache,
     timestampBefore |-> cacheTimestamp, time |-> now,
     generating |-> FALSE, threw |-> FALSE, answered |-> FALSE,
     result |-> <<>>, generated |-> <<>>]

InitServer ==
    /\ corpusFile \in ServerFiles
    /\ rulesData = NoData
    /\ openaiKey \in BOOLEAN
    /\ normalizedRules = NewRAG.normalizedRules
    /\ rulesWithEmbeddings = NewRAG.rulesWithEmbeddings
    /\ isLoaded = NewRAG.isLoaded
    /\ embeddingsReady = NewRAG.embeddingsReady
    /\ metadata = NewRAG.metadata
    /\ storage = Absent
    /\ now = 1
    /\ calls = [p \in Callers |-> Idle]
    /\ last = NoStep
    /\ ServerCold
    /\ batch = NoBatch
    /\ fn = NoEvaluation

\* searchRelevantRules(query, topK) is invoked: ensureEmbeddingsCache answers
\* from the slot, or loads the rules and sends them all to the provider
ServerRequest(r, query, topK) ==
    LET step   == ServedStep("request", r)
        loaded == serverLoadRules(corpusFile)
    IN  /\ requests[r] = Idle
        /\ \A q \in Requesters : q < r => requests[q] # Idle
        /\ IF cacheIsValid(embeddingsCache, cacheTimestamp, now)
           THEN IF openaiKey
                THEN /\ requests' = [requests EXCEPT ![r] =
                                        [pc |-> "query", query |-> query, topK |-> topK,
                                         rules |-> embeddingsCache.rules]]
                     /\ served' = step
                ELSE /\ requests' = requests
                     /\ served' = [step EXCEPT !.threw = TRUE]
           ELSE IF loaded.threw \/ ~openaiKey
                THEN /\ requests' = requests
                     /\ served' = [step EXCEPT !.threw = TRUE]
                ELSE /\ requests' = [requests EXCEPT ![r] =
                                        [pc |-> "generate", query |-> query,
                                         topK |-> topK, now |-> now,
                                         normalizedRules |-> loaded.rules]]
                     /\ served' = [step EXCEPT !.generating = TRUE]
        /\ UNCHANGED <<embeddingsCache, cacheTimestamp, corpusFile, openaiKey, now,
                       clientVars, batch, fn>>

\* the embeddings request of ensureEmbeddingsCache settles
ServerGenerateSettle(r) ==
    LET c    == requests[r]
        step == ServedStep("generate", r)
    IN  /\ c # Idle
        /\ c.pc = "generate"
        /\ \/ /\ requests' = [requests EXCEPT ![r] = Idle]
              /\ served' = [step EXCEPT !.threw = TRUE]
              /\ UNCHANGED <<embeddingsCache, cacheTimestamp>>
           \/ \E response \in ProviderResponses(Len(c.normalizedRules)) :
                  LET rs == AttachEmbeddings(c.normalizedRules, response)
                  IN  /\ embeddingsCache' = [set |-> TRUE, rules |-> rs]
                      /\ cacheTimestamp' = c.now
                      /\ requests' = [requests EXCEPT ![r] =
                                         [pc |-> "query", query |-> c.query,
                                          topK |-> c.topK, rules |-> rs]]
                      /\ served' = [step EXCEPT !.generated = rs, !.time = c.now]
        /\ UNCHANGED <<corpusFile, openaiKey, now, clientVars, batch, fn>>

\* the request for the query embedding settles and the rules are ranked
ServerQuerySettle(r) ==
    LET c    == requests[r]
        step == ServedStep("query", r)
    IN  /\ c # Idle
        /\ c.pc = "query"
        /\ requests' = [requests EXCEPT ![r] = Idle]
        /\ \/ served' = [step EXCEPT !.threw = TRUE]
           \/ \E queryEmbedding \in ProviderVectors :
                  LET ranked == RankRules(queryEmbedding, c.rules, c.topK)
                  IN  served' = [step EXCEPT !.threw = ranked.threw,
                                            !.answered = ~ranked.threw,
                                            !.result = ranked.value]
        /\ UNCHANGED <<embeddingsCache, cacheTimestamp, corpusFile, openaiKey, now,
                       clientVars, batch, fn>>

\* time passes between the requests and while they are served
ServerTick ==
    /\ \E t \in ServerClock :
           /\ t > now
           /\ now' = t
    /\ served' = NoServed
    /\ UNCHANGED <<embeddingsCache, cacheTimestamp, requests, corpusFile,
                   openaiKey, clientVars, batch, fn>>

NextServer ==
    \/ \E r \in Requesters, a \in ServerArgs : ServerRequest(r, a[1], a[2])
    \/ \E r \in Requesters : ServerGenerateSettle(r)
    \/ \E r \in Requesters : ServerQuerySettle(r)
    \/ ServerTick

SpecServer == InitServer /\ [][NextServer]_vars

(***************************************************************************)
(* The session handler of the function: it picks the system instructions   *)
(* of the session from the semantic search or from the embedded rules      *)
(***************************************************************************)
\* LEGAL_RULES, the rules embedded in legalContext.js: id and contract types
LEGAL_RULES ==
    << [id |-> <<"U", "S", "_", "L", "E", "G", "A", "L", "_", "0", "0", "1">>, contract_types |-> <<"NDA", "MSA">>],
       [id |-> <<"U", "S", "_", "L", "E", "G", "A", "L", "_", "0", "0", "2">>, contract_types |-> <<"MSA">>],
       [id |-> <<"U", "S", "_", "L", "E", "G", "A", "L", "_", "0", "0", "5">>, contract_types |-> <<"NDA", "MSA">>],
       [id |-> <<"U", "S", "_", "L", "E", "G", "A", "L", "_", "0", "0", "9">>, contract_types |-> <<"MSA">>],
       [id |-> <<"U", "S", "_", "L", "E", "G", "A", "L", "_", "0", "1", "0">>, contract_types |-> <<"MSA">>] >>

\* system instructions: the fixed text around the rules, and the rules listed
Instructions(preamble, rules) ==
    [preamble |-> preamble, rules |-> [i \in 1..Len(rules) |-> rules[i].id]]

\* buildLegalSystemInstructions(contractType)
buildLegalSystemInstructions(contractType) ==
    Instructions("expert",
                 IF contractType # ""
                 THEN Filter(LEGAL_RULES,
                             [i \in 1..Len(LEGAL_RULES) |->
                                 \E j \in 1..Len(LEGAL_RULES[i].contract_types) :
                                     LEGAL_RULES[i].contract_types[j] = contractType])
                 ELSE LEGAL_RULES)

\* buildSemanticInstructions(query, 5) once searchRelevantRules has settled:
\* the catch block answers with a fixed text without rules
buildSemanticInstructions(search) ==
    IF search.threw
    THEN Instructions("basic", <<>>)
    ELSE Instructions("semantic", search.result)

\* the request bodies of the handler
SessionBodies ==
    { [contractType |-> ct, query |-> q, useSemanticSearch |-> u] :
          ct \in {"", "NDA", "MSA"}, q \in { <<>>, sPAY }, u \in BOOLEAN }

\* useSemanticSearch && query
SemanticRequested(body) == body.useSemanticSearch /\ body.query # <<>>

\* the handler's answer: 500 without configuration, else the instructions
\* of the session it creates
SessionAnswer(body, searchThrew, instructions) ==
    IF ~openaiKey
    THEN [op |-> "session", body |-> body, statusCode |-> 500,
          searchThrew |-> FALSE, instructions |-> Instructions("none", <<>>)]
    ELSE [op |-> "session", body |-> body, statusCode |-> 200,
          searchThrew |-> searchThrew, instructions |-> instructions]

\* a request that does not ask for the semantic search is answered
SessionStatic ==
    /\ \E body \in SessionBodies :
           /\ ~SemanticRequested(body)
           /\ fn' = SessionAnswer(body, FALSE,
                                  buildLegalSystemInstructions(body.contractType))
    /\ UNCHANGED <<corpusFile, openaiKey, now, clientVars, serverVars, batch>>

\* a request that asks for the semantic search is answered once its
\* searchRelevantRules has settled
SessionSemantic ==
    /\ served # NoServed
    /\ served.threw \/ served.answered
    /\ \E body \in SessionBodies :
           /\ SemanticRequested(body)
           /\ fn' = SessionAnswer(body, served.threw, buildSemanticInstructions(served))
    /\ UNCHANGED <<corpusFile, openaiKey, now, clientVars, serverVars, batch>>

NextSession ==
    \/ \E r \in Requesters, a \in ServerArgs : ServerRequest(r, a[1], a[2])
    \/ \E r \in Requesters : ServerGenerateSettle(r)
    \/ \E r \in Requesters : ServerQuerySettle(r)
    \/ ServerTick
    \/ SessionStatic
    \/ SessionSemantic

SpecSession == InitServer /\ [][NextSession]_vars

(***************************************************************************)
(* cosineSimilarity and the ranking of semanticSearch, evaluated on their  *)
(* own over bounded inputs                                                 *)
(***************************************************************************)
RECURSIVE VectorsOfLength(_)
\* the vectors of n components over -1, 0, 1
VectorsOfLength(n) ==
    IF n = 0 THEN { <<>> }
    ELSE { Append(v, c) : v \in VectorsOfLength(n - 1), c \in {0 - 1, 0, 1} }

Vectors == UNION { VectorsOfLength(n) : n \in 0..MaxDim }

sDigits == <<"1", "2", "3", "4", "5", "6", "7", "8", "9">>

\* the i-th candidate: a normalized rule with an id of its own
CandidateRule(i) ==
    [normalizeRule(RuleA, <<"U", "S">>) EXCEPT !.id = <<"r", sDigits[i]>>]

\* what the embedding property of a candidate may hold: vectors of the
\* query's length, one of another length, and none (a cache entry written
\* without it)
CandidateEmbeddings ==
    { <<1, 0>>, <<0, 1>>, <<1, 1>>, <<0 - 1, 0>>, <<1, 0, 0>>, <<>> }

RECURSIVE CandidateLists(_)
\* the lists of n candidates
CandidateLists(n) ==
    IF n = 0 THEN { <<>> }
    ELSE { Append(l, WithEmbedding(CandidateRule(n), e)) :
              l \in CandidateLists(n - 1), e \in CandidateEmbeddings }

QueryEmbeddings == { <<1, 0>>, <<1, 1>>, <<0, 0>> }

TopKs == (0 - 1)..(MaxCandidates + 1)

InitPure ==
    /\ corpusFile = NoData
    /\ rulesData = NoData
    /\ openaiKey = TRUE
    /\ normalizedRules = NewRAG.normalizedRules
    /\ rulesWithEmbeddings = NewRAG.rulesWithEmbeddings
    /\ isLoaded = NewRAG.isLoaded
    /\ embeddingsReady = NewRAG.embeddingsReady
    /\ metadata = NewRAG.metadata
    /\ storage = Absent
    /\ now = 0
    /\ calls = [p \in Callers |-> Idle]
    /\ last = NoStep
    /\ ServerCold
    /\ batch = NoBatch
    /\ \/ \E vecA \in Vectors, vecB \in Vectors :
              fn = [op |-> "cosineSimilarity", vecA |-> vecA, vecB |-> vecB,
                    done |-> FALSE]
       \/ \E n \in 0..MaxCandidates :
              \E candidates \in CandidateLists(n), queryEmbedding \in QueryEmbeddings,
                 topK \in TopKs :
                  fn = [op |-> "semanticSearch", queryEmbedding |-> queryEmbedding,
                        candidates |-> candidates, topK |-> topK, done |-> FALSE]

\* cosineSimilarity(vecA, vecB) is evaluated
EvaluateCosine ==
    /\ fn.op = "cosineSimilarity"
    /\ ~fn.done
    /\ LET r == cosineSimilarity(fn.vecA, fn.vecB)
       IN  fn' = [op |-> "cosineSimilarity", vecA |-> fn.vecA, vecB |-> fn.vecB,
                  done |-> TRUE, threw |-> r.threw,
                  value |-> [num |-> r.num, den2 |-> r.den2, err |-> r.err]]
    /\ UNCHANGED <<corpusFile, openaiKey, now, clientVars, serverVars, batch>>

\* semanticSearch ranks the candidates against the query embedding
EvaluateRanking ==
    /\ fn.op = "semanticSearch"
    /\ ~fn.done
    /\ LET r == RankRules(fn.queryEmbedding, fn.candidates, fn.topK)
       IN  fn' = [op |-> "semanticSearch", queryEmbedding |-> fn.queryEmbedding,
                  candidates |-> fn.candidates, topK |-> fn.topK,
                  done |-> TRUE, threw |-> r.threw, value |-> r.value]
    /\ UNCHANGED <<corpusFile, openaiKey, now, clientVars, serverVars, batch>>

NextPure == EvaluateCosine \/ EvaluateRanking

SpecPure == InitPure /\ [][NextPure]_vars

(***************************************************************************)
(* generateEmbeddingsBatch(texts, batchSize) called on its own, with small *)
(* batch sizes, next to generateEmbeddings() on a loaded orchestrator      *)
(***************************************************************************)
\* texts with and without surrounding whitespace
BatchTexts == { <<"a">>, <<"b", " ">>, <<" ", "c">> }

RECURSIVE TextLists(_)
TextLists(n) ==
    IF n = 0 THEN { <<>> }
    ELSE { Append(l, t) : l \in TextLists(n - 1), t \in BatchTexts }

BatchSizes == (1..MaxBatchSize) \cup {DefaultBatchSize}

\* the vector the stub provider answers one input with
ProviderEmbedding(input) ==
    IF input = <<"a">> THEN <<1, 0>>
    ELSE IF input = <<"b">> THEN <<0, 1>>
    ELSE IF input = <<"c">> THEN <<1, 1>>
    ELSE <<0, 0>>

\* input: batch.map(text => text.trim())
BatchInput(b) ==
    LET chunk == Batch([normalized |-> b.texts, i |-> b.i, batchSize |-> b.batchSize])
    IN  [j \in 1..Len(chunk) |-> Trim(chunk[j])]

\* response.data.map(item => item.embedding)
BatchResponse(input) == [j \in 1..Len(input) |-> ProviderEmbedding(input[j])]

\* the call as it enters the loop body at index i and sends its request;
\* `sent` logs the first MaxTexts + 1 requests
BatchRequest(b, i) ==
    LET at == [b EXCEPT !.i = i]
    IN  [at EXCEPT !.status = "request",
                   !.sent = IF Len(b.sent) <= MaxTexts
                            THEN Append(b.sent, BatchInput(at)) ELSE b.sent]

BatchRejectedReturnsPartial(b) ==
    [b EXCEPT !.status = "returned", !.value = b.embeddings]

\* catch (error) { console.error(...); throw error; }
BatchRejected(b) == [b EXCEPT !.status = "threw"]

\* generateEmbeddingsBatch(texts, batchSize) up to its first await, for a
\* batchSize among `sizes`
BatchStart(sizes) ==
    /\ batch = NoBatch
    /\ \E texts \in UNION { TextLists(n) : n \in 0..MaxTexts },
          batchSize \in sizes :
           LET b == [status |-> "called", texts |-> texts, batchSize |-> batchSize,
                     i |-> 0, embeddings |-> <<>>, sent |-> <<>>,
                     provider |-> "none", value |-> <<>>]
           IN  batch' = IF ~openaiKey
                        THEN [b EXCEPT !.status = "threw", !.provider = "nokey"]
                        ELSE IF 0 < Len(texts)
                        THEN BatchRequest(b, 0)
                        ELSE [b EXCEPT !.status = "returned", !.value = b.embeddings]
    /\ UNCHANGED <<corpusFile, openaiKey, now, clientVars, serverVars, fn>>

\* generateEmbeddingsBatch is called with a positive batchSize
BatchCall == BatchStart(BatchSizes)

\* the request in flight settles
BatchSettle ==
    /\ batch.status = "request"
    /\ \/ batch' = BatchRejected([batch EXCEPT !.provider = "failed"])
       \/ LET embeddings == batch.embeddings \o BatchResponse(BatchInput(batch))
              b == [batch EXCEPT !.embeddings = embeddings, !.provider = "ok"]
          IN  batch' = IF batch.i + batch.batchSize < Len(batch.texts)
                       THEN [b EXCEPT !.status = "delay"]
                       ELSE [b EXCEPT !.status = "returned", !.value = embeddings]
    /\ UNCHANGED <<corpusFile, openaiKey, now, clientVars, serverVars, fn>>

\* the 100 ms between two requests have passed
BatchDelayElapsed ==
    /\ batch.status = "delay"
    /\ batch' = BatchRequest(batch, batch.i + batch.batchSize)
    /\ UNCHANGED <<corpusFile, openaiKey, now, clientVars, serverVars, fn>>

\* the orchestrator after initialize() on the two-rule corpus: with the
\* embeddings generated and cached, or with the generation failed
InitBatch ==
    /\ corpusFile = Dataset(TRUE, <<RuleA, RuleB>>, Meta("1.0"))
    /\ rulesData = corpusFile
    /\ openaiKey \in BOOLEAN
    /\ normalizedRules = normalizeAllRules(LoadResult(corpusFile))
    /\ isLoaded = TRUE
    /\ metadata = Meta("1.0")
    /\ \/ /\ rulesWithEmbeddings = EmbeddedAB
          /\ embeddingsReady = TRUE
          /\ storage = cacheEmbeddings(Absent, EmbeddedAB, "1.0", 0, TRUE)
       \/ /\ rulesWithEmbeddings = NewRAG.rulesWithEmbeddings
          /\ embeddingsReady = FALSE
          /\ storage = Absent
    /\ now = 0
    /\ calls = [p \in Callers |-> Idle]
    /\ last = NoStep
    /\ ServerCold
    /\ batch = NoBatch
    /\ fn = NoEvaluation

NextBatch ==
    \/ BatchCall
    \/ BatchSettle
    \/ BatchDelayElapsed
    \/ \E p \in Callers : GenerateEmbeddingsCall(p)
    \/ \E p \in Callers : EmbedSettle(p)

SpecBatch == InitBatch /\ [][NextBatch]_vars

(***************************************************************************)
(* generateEmbeddingsBatch with any batchSize, each provider call settling *)
(* and each delay elapsing                                                 *)
(***************************************************************************)
\* generateEmbeddingsBatch is called with a positive batchSize or with 0, a
\* request in flight settles, a delay elapses
NextBatchFair ==
    \/ BatchStart(BatchSizes \cup {0})
    \/ BatchSettle
    \/ BatchDelayElapsed

\* a provider call in flight returns or fails, a timer that was set fires
SpecBatchFair ==
    /\ InitBatch
    /\ [][NextBatchFair]_vars
    /\ WF_vars(BatchSettle)
    /\ WF_vars(BatchDelayElapsed)

(***************************************************************************)
(* The read methods of the orchestrator, getRelevantRules and              *)
(* buildSemanticContext, on an orchestrator before and after initialize()  *)
(***************************************************************************)
\* a medium-severity rule for MSAs
RuleM ==
    [RuleA EXCEPT !.rule_id = <<"m", "0">>, !.severity = "medium",
                  !.contract_types = <<"MSA">>]

\* Array.prototype.includes
ArrayIncludes(arr, x) == \E i \in 1..Len(arr) : arr[i] = x

\* a filters object: "" and <<>> stand for a criterion that is not given
\* (undefined and the empty string are both falsy)
NoFilters == [severity |-> "", contractType |-> "", category |-> <<>>]

filterFirstContractType(rules, filters) ==
    Filter(rules,
           [i \in 1..Len(rules) |->
               LET rule == rules[i]
               IN  /\ ~(filters.severity # "" /\ rule.metadata.severity # filters.severity)
                   /\ ~(filters.contractType # ""
                         /\ rule.metadata.contract_types[1] # filters.contractType)
                   /\ ~(filters.category # <<>> /\ rule.metadata.category # filters.category)])

\* filterNormalizedRules(normalizedRules, filters)
filterNormalizedRules(rules, filters) ==
    Filter(rules,
           [i \in 1..Len(rules) |->
               LET rule == rules[i]
               IN  /\ ~(filters.severity # "" /\ rule.metadata.severity # filters.severity)
                   /\ ~(filters.contractType # ""
                         /\ ~ArrayIncludes(rule.metadata.contract_types, filters.contractType))
                   /\ ~(filters.category # <<>> /\ rule.metadata.category # filters.category)])

\* getRelevantRules(context)
getRelevantRules(this, context) ==
    IF ~this.isLoaded
    THEN <<>>
    ELSE LET all == this.normalizedRules
             byType ==
                 IF context.contractType # ""
                 THEN filterNormalizedRules(all,
                          [NoFilters EXCEPT !.contractType = context.contractType])
                 ELSE all
             bySeverity ==
                 IF context.severity # ""
                 THEN filterNormalizedRules(byType,
                          [NoFilters EXCEPT !.severity = context.severity])
                 ELSE filterNormalizedRules(byType, [NoFilters EXCEPT !.severity = "high"])
                      \o filterNormalizedRules(byType, [NoFilters EXCEPT !.severity = "medium"])
         IN  IF context.category # <<>>
             THEN filterNormalizedRules(bySeverity,
                      [NoFilters EXCEPT !.category = context.category])
             ELSE bySeverity

\* the contexts callers pass
FilterContexts ==
    { [severity |-> sv, contractType |-> ct, category |-> cat] :
          sv \in {"", "high", "medium", "low", "urgent"},
          ct \in {"", "NDA", "MSA", "SOW"},
          cat \in { <<>>, <<"c">>, <<"x">> } }

\* the corpora the orchestrator has loaded
QueryCorpora ==
    { Dataset(TRUE, <<RuleM, RuleA, RuleB>>, Meta("1.0")),
      Dataset(TRUE, <<RuleA, RuleM, RuleB>>, Meta("1.0")),
      Dataset(TRUE, <<RuleB, RuleA>>, NoMetadata) }

\* the orchestrator as constructed, after initialize() whose generation
\* failed, and after initialize() with the embeddings generated
QueryOrchestrators ==
    {NewRAG}
        \cup UNION { LET loaded == [NewRAG EXCEPT
                                       !.normalizedRules = normalizeAllRules(LoadResult(c)),
                                       !.metadata = c.metadata,
                                       !.isLoaded = TRUE]
                     IN  { loaded,
                           generateEmbeddingsResolved(loaded, loaded.normalizedRules,
                               << <<1, 0>>, <<0, 1>>, <<1, 1>> >>) } :
                     c \in QueryCorpora }

InitQueries ==
    /\ corpusFile \in QueryCorpora
    /\ rulesData \in {NoData, corpusFile}
    /\ openaiKey \in BOOLEAN
    /\ \E t \in QueryOrchestrators :
           /\ t.isLoaded => (rulesData = corpusFile
                              /\ t.normalizedRules = normalizeAllRules(LoadResult(corpusFile)))
           /\ ~t.isLoaded => rulesData = NoData
           /\ normalizedRules = t.normalizedRules
           /\ rulesWithEmbeddings = t.rulesWithEmbeddings
           /\ isLoaded = t.isLoaded
           /\ embeddingsReady = t.embeddingsReady
           /\ metadata = t.metadata
    /\ storage = Absent
    /\ now = 0
    /\ calls = [p \in Callers |-> Idle]
    /\ last = NoStep
    /\ ServerCold
    /\ batch = NoBatch
    /\ fn = NoEvaluation

\* the characters of the string values of the model
Chars(str) ==
    CASE str = "high" -> <<"h", "i", "g", "h">>
      [] str = "medium" -> <<"m", "e", "d", "i", "u", "m">>
      [] str = "low" -> <<"l", "o", "w">>
      [] str = "NDA" -> <<"N", "D", "A">>
      [] str = "MSA" -> <<"M", "S", "A">>
      [] str = "1.0" -> <<"1", ".", "0">>
      [] str = "2.0" -> <<"2", ".", "0">>
      [] OTHER -> sUndefined

RECURSIVE JoinWith(_, _)
\* Array.prototype.join(separator)
JoinWith(parts, separator) ==
    IF parts = <<>> THEN <<>>
    ELSE IF Len(parts) = 1 THEN parts[1]
    ELSE parts[1] \o separator \o JoinWith(Tail(parts), separator)

RECURSIVE DecimalDigits(_)
\* the decimal digits of a natural number
DecimalDigits(n) ==
    IF n < 10 THEN <<(<<"0">> \o sDigits)[n + 1]>>
    ELSE DecimalDigits(n \div 10) \o <<(<<"0">> \o sDigits)[(n % 10) + 1]>>


\* |x * 100| in tenths, rounded to the nearest: the t with
\* (t - 1/2) / 1000 <= |num| / sqrt(den2) < (t + 1/2) / 1000
PercentTenths(x) ==
    LET a == IF x.num < 0 THEN 0 - x.num ELSE x.num
    IN  CHOOSE t \in 0..1000 :
            /\ t = 0 \/ (2 * t - 1) * (2 * t - 1) * x.den2 <= 4000000 * a * a
            /\ 4000000 * a * a < (2 * t + 1) * (2 * t + 1) * x.den2

\* (rule.similarityScore * 100).toFixed(1); a rule without similarityScore
\* gives undefined * 100, which is NaN
relevancePercent(rule) ==
    IF "similarityScore" \notin DOMAIN rule
    THEN <<"N", "a", "N">>
    ELSE LET t == PercentTenths(rule.similarityScore)
         IN  (IF rule.similarityScore.num < 0 THEN <<"-">> ELSE <<>>)
             \o DecimalDigits(t \div 10) \o <<".">> \o DecimalDigits(t % 10)

\* the fixed texts of a rule block
contextLabels ==
    [ heading  |-> <<"#", "#", " ", "R", "u", "l", "e", " ">>,
      relevant |-> <<"%", " ", "r", "e", "l", "e", "v", "a", "n", "t", ")">>,
      severity |-> <<"*", "*", "S", "e", "v", "e", "r", "i", "t", "y", ":", "*", "*", " ">>,
      appliesTo |-> <<"*", "*", "A", "p", "p", "l", "i", "e", "s", " ", "t", "o", ":", "*", "*", " ">>,
      category |-> <<"*", "*", "C", "a", "t", "e", "g", "o", "r", "y", ":", "*", "*", " ">>,
      ruleBreak |-> <<"-", "-", "-">> ]

\* the lines buildSemanticContext pushes for the rule at `index` (from 0)
contextBlock(rule, index) ==
    << contextLabels.heading \o DecimalDigits(index + 1) \o <<":", " ">> \o rule.id
           \o <<" ", "(">> \o relevancePercent(rule) \o contextLabels.relevant,
       <<>>,
       rule.text,
       <<>>,
       contextLabels.severity \o Chars(rule.metadata.severity),
       contextLabels.appliesTo \o JoinWith([i \in 1..Len(rule.metadata.contract_types) |->
                                  Chars(rule.metadata.contract_types[i])], <<",", " ">>) >>
    \o (IF rule.metadata.category # <<>>
        THEN <<contextLabels.category \o rule.metadata.category>> ELSE <<>>)
    \o << <<>>, contextLabels.ruleBreak, <<>> >>

\* the lines before the first rule
contextHeader(this) ==
    << <<"#", " ", "L", "e", "g", "a", "l", " ", "D", "r", "a", "f", "t", "i", "n", "g", " ", "G", "u", "i", "d", "e", "l", "i", "n", "e", "s">>,
       <<>>,
       <<"J", "u", "r", "i", "s", "d", "i", "c", "t", "i", "o", "n", ":", " ">> \o (IF this.metadata.present /\ this.metadata.jurisdiction # <<>>
                              THEN this.metadata.jurisdiction ELSE <<"U", "S">>),
       <<"V", "e", "r", "s", "i", "o", "n", ":", " ">> \o (IF this.metadata.present /\ this.metadata.version # Undefined
                         THEN Chars(this.metadata.version) ELSE Chars("1.0")),
       <<>>,
       <<"A", "p", "p", "l", "y", " ", "t", "h", "e", " ", "f", "o", "l", "l", "o", "w", "i", "n", "g", " ", "l", "e", "g", "a", "l", " ", "s", "t", "y", "l", "e", " ", "r", "u", "l", "e", "s", " ", "w", "h", "e", "n", " ", "r", "e", "v", "i", "e", "w", "i", "n", "g", " ", "o", "r", " ", "d", "r", "a", "f", "t", "i", "n", "g", " ", "c", "o", "n", "t", "r", "a", "c", "t", "s", ":">>,
       <<>> >>

RECURSIVE contextBlocks(_, _)
\* relevantRules.forEach((rule, index) => ...), from `index` on
contextBlocks(relevantRules, index) ==
    IF index >= Len(relevantRules) THEN <<>>
    ELSE contextBlock(relevantRules[index + 1], index)
         \o contextBlocks(relevantRules, index + 1)

\* buildSemanticContext once searchRelevantRules has resolved
buildSemanticContext(this, relevantRules) ==
    IF Len(relevantRules) = 0
    THEN <<>>
    ELSE JoinLines(contextHeader(this) \o contextBlocks(relevantRules, 0))

\* the queries and maxRules values callers pass
ContextArgs == {sPAY, sE, <<"z">>, <<>>} \X {0 - 1, 0, 1, 2, 5}

\* getRelevantRules(context) is called
GetRelevantRules ==
    /\ \E context \in FilterContexts :
           fn' = [op |-> "getRelevantRules", context |-> context,
                  value |-> getRelevantRules(This, context)]
    /\ UNCHANGED <<corpusFile, openaiKey, now, clientVars, serverVars, batch>>

\* buildSemanticContext(query, maxRules), from its call to its return: the
\* search answers by keyword when embeddingsReady is false, with [] when
\* the query embedding cannot be had, and with the ranking otherwise
BuildSemanticContext(query, maxRules) ==
    /\ \E relevantRules \in
              IF ~embeddingsReady
              THEN { keywordFallback(This, query, maxRules) }
              ELSE IF ~openaiKey
              THEN { semanticResult([threw |-> TRUE, value |-> <<>>]).value }
              ELSE { semanticResult([threw |-> TRUE, value |-> <<>>]).value }
                   \cup { semanticResult(RankRules(queryEmbedding,
                                                   rulesWithEmbeddings, maxRules)).value :
                              queryEmbedding \in ProviderVectors } :
           fn' = [op |-> "buildSemanticContext", query |-> query,
                  maxRules |-> maxRules, relevantRules |-> relevantRules,
                  value |-> buildSemanticContext(This, relevantRules)]
    /\ UNCHANGED <<corpusFile, openaiKey, now, clientVars, serverVars, batch>>

NextQueries ==
    \/ GetRelevantRules
    \/ \E a \in ContextArgs : BuildSemanticContext(a[1], a[2])

SpecQueries == InitQueries /\ [][NextQueries]_vars

(***************************************************************************)
(* The loader and the two normalizers evaluated on rule records            *)
(***************************************************************************)
\* the records normalizeRule is given: every combination of optional fields
RecordsToNormalize ==
    { [RuleA EXCEPT !.rule = r, !.bad_example = bad, !.good_example = good,
                    !.explanation = expl, !.category = cat] :
          r \in { <<"P", "a", "y">>, <<"t", "a", "x">> },
          bad \in { <<>>, <<"b">> }, good \in { <<>>, <<"g">> },
          expl \in { <<>>, <<"y">> }, cat \in { <<>>, <<"c">> } }

\* a second record with the rule_id of RuleA
RuleASecond == [RuleB EXCEPT !.rule_id = RuleA.rule_id]

\* the records of a corpus file
FileRecords == {RuleA, RuleB, RuleASecond, RuleBadSeverity, RuleNoId}

RECURSIVE RecordLists(_)
RecordLists(n) ==
    IF n = 0 THEN { <<>> }
    ELSE { Append(l, r) : l \in RecordLists(n - 1), r \in FileRecords }

InitRecords ==
    /\ corpusFile = NoData
    /\ rulesData = NoData
    /\ openaiKey = TRUE
    /\ normalizedRules = NewRAG.normalizedRules
    /\ rulesWithEmbeddings = NewRAG.rulesWithEmbeddings
    /\ isLoaded = NewRAG.isLoaded
    /\ embeddingsReady = NewRAG.embeddingsReady
    /\ metadata = NewRAG.metadata
    /\ storage = Absent
    /\ now = 0
    /\ calls = [p \in Callers |-> Idle]
    /\ last = NoStep
    /\ ServerCold
    /\ batch = NoBatch
    /\ \/ \E rule \in RecordsToNormalize :
              fn = [op |-> "normalizeRule", rule |-> rule, done |-> FALSE]
       \/ \E n \in 0..MaxRecords : \E rs \in RecordLists(n) :
              fn = [op |-> "loadLegalRules", data |-> Dataset(TRUE, rs, Meta("1.0")),
                    done |-> FALSE]

\* the record is normalized by the client and by the function
EvaluateNormalizers ==
    /\ fn.op = "normalizeRule"
    /\ ~fn.done
    /\ fn' = [op |-> "normalizeRule", rule |-> fn.rule, done |-> TRUE,
              client |-> normalizeRule(fn.rule, <<"U", "S">>),
              server |-> serverNormalizeRule(fn.rule)]
    /\ UNCHANGED <<corpusFile, openaiKey, now, clientVars, serverVars, batch>>

\* loadLegalRules() resolves on the parsed file
EvaluateLoad ==
    /\ fn.op = "loadLegalRules"
    /\ ~fn.done
    /\ fn' = [op |-> "loadLegalRules", data |-> fn.data, done |-> TRUE,
              value |-> LoadResult(fn.data)]
    /\ UNCHANGED <<corpusFile, openaiKey, now, clientVars, serverVars, batch>>

NextRecords == EvaluateNormalizers \/ EvaluateLoad

SpecRecords == InitRecords /\ [][NextRecords]_vars

(***************************************************************************)
(* Properties.  `last` describes the step just taken, so a state predicate *)
(* over `last` and the other variables is a postcondition of that step.    *)
(***************************************************************************)
Min(a, b) == IF a < b THEN a ELSE b

\* q occurs in s when letter case is ignored
ContainsIgnoreCase(s, q) ==
    \E i \in 0..(Len(s) - Len(q)) :
        \A j \in 1..Len(q) : LowerChar(s[i + j]) = LowerChar(q[j])

\* the positions of the normalized rules whose text or id contains q
Matching(q) ==
    { i \in 1..Len(normalizedRules) :
        \/ ContainsIgnoreCase(normalizedRules[i].text, q)
        \/ ContainsIgnoreCase(normalizedRules[i].id, q) }

\* res is the first k matching rules, in corpus order
IsFirstMatches(res, q, k) ==
    /\ Len(res) = Min(k, Cardinality(Matching(q)))
    /\ \A i \in 1..Len(res) :
           \E m \in Matching(q) :
               /\ Cardinality({ x \in Matching(q) : x < m }) = i - 1
               /\ res[i] = normalizedRules[m]

\* a step of initialize in which loadLegalRules() resolved
LoadStep == last.op = "initialize" /\ last.load # "none"

\* a step of initialize in which loadCachedEmbeddings was asked
LookupStep == LoadStep /\ last.lookup # "none"

\* a search answered by the keyword fallback on a loaded corpus
FallbackSearch ==
    last.op = "searchRelevantRules" /\ last.preLoaded /\ ~last.preReady

\* the version loadCachedEmbeddings and cacheEmbeddings work with
CorpusVersion == IF metadata.version = Undefined THEN "2.0" ELSE metadata.version

\* C1: initialize returns the failure indicator and leaves the orchestrator
\* Uninitialized whenever the loader yields zero valid rules or a load error.
C1_EmptyCorpusFails ==
    (LoadStep /\ last.settled /\ last.valid = 0)
        => (~last.ok /\ ~isLoaded /\ ~embeddingsReady)

\* C2: whenever the loader yields at least one valid rule, initialize returns
\* success, the orchestrator is loaded and holds the valid rules.
C2_PartialLoadSucceeds ==
    (LoadStep /\ last.valid >= 1)
        => /\ last.settled => last.ok
           /\ isLoaded
           /\ Len(normalizedRules) = last.valid

\* C3: searchRelevantRules never raises to its caller, whatever the state and
\* the provider outcome, and answers the empty list while nothing is loaded.
C3_SearchNeverRaises ==
    last.op = "searchRelevantRules"
        => /\ last.settled
           /\ ~last.raised
           /\ ~last.preLoaded => last.result = <<>>

C3_Witness ==
    /\ last.op = "searchRelevantRules"
    /\ last.preReady
    /\ last.provider = "failed"
    /\ ~last.raised

C5_ProviderFailureFallsBack ==
    ( /\ last.op = "searchRelevantRules"
      /\ last.preLoaded
      /\ last.provider = "failed" \/ ~last.preReady
      /\ last.query # <<>>
      /\ last.topK >= 0 )
        => IsFirstMatches(last.result, last.query, last.topK)

\* C6: initialize(true) that finds a cache entry of the corpus version, not
\* older than the TTL and with one rule per corpus rule ends EmbeddingsReady
\* with the cached vectors and without a provider call.
C6_CacheHit ==
    ( /\ LoadStep
      /\ last.useCache
      /\ last.load = "ok"
      /\ storage.kind = "object"
      /\ metadata.version # Undefined
      /\ storage.version = metadata.version
      /\ storage.hasTimestamp
      /\ now - storage.timestamp <= maxAge
      /\ storage.hasRules
      /\ Len(storage.rules) = Len(normalizedRules) )
        => /\ last.settled
           /\ last.ok
           /\ last.usedCache
           /\ embeddingsReady
           /\ rulesWithEmbeddings = storage.rules
           /\ last.providerCalls = 0

C6_Witness ==
    /\ LoadStep
    /\ last.useCache
    /\ last.usedCache
    /\ storage.kind = "object"
    /\ now - storage.timestamp = maxAge
    /\ rulesWithEmbeddings = storage.rules
    /\ rulesWithEmbeddings # <<>>

\* C7: with a cache entry written under another version than the one the
\* corpus declares, initialize(true) takes the entry for a miss, does not
\* place its vectors in memory and turns to the provider.
C7_VersionMismatchRegenerates ==
    ( /\ LoadStep
      /\ last.useCache
      /\ last.load = "ok"
      /\ storage.kind = "object"
      /\ metadata.version # Undefined
      /\ storage.version # metadata.version )
        => /\ last.lookup = "null"
           /\ ~last.usedCache
           /\ openaiKey => ~last.settled /\ \E p \in Callers :
                                               /\ calls[p] # Idle
                                               /\ calls[p].op = "initialize"
                                               /\ calls[p].pc = "embed"
           /\ ~openaiKey => last.provider = "nokey" /\ ~embeddingsReady

C7_Witness ==
    /\ LoadStep
    /\ last.useCache
    /\ storage.kind = "object"
    /\ storage.version = "1.0"
    /\ metadata.version = "2.0"
    /\ last.lookup = "null"
    /\ ~last.settled

\* C8: when the provider fails while initialize generates embeddings, the
\* orchestrator is loaded and not EmbeddingsReady, initialize returns true
\* and the durable cache is not written.
C8_GenerationFailure ==
    (last.op = "initialize" /\ last.provider = "failed")
        => /\ last.settled
           /\ last.ok
           /\ ~last.raised
           /\ isLoaded
           /\ ~embeddingsReady
           /\ ~last.wrote

C8_Witness ==
    /\ last.op = "initialize"
    /\ last.provider = "failed"
    /\ last.preReady
    /\ ~embeddingsReady

C10_LoadCachedNeverRaises ==
    LookupStep
        => /\ last.lookup # "threw"
           /\ ( \/ storage.kind \in {"absent", "garbage", "null"}
                \/ storage.version # CorpusVersion
                \/ now - storage.timestamp > maxAge )
                  => last.lookup = "null"
           /\ last.lookup = "rules"
                  => storage.kind = "object" /\ last.lookupRules = storage.rules

C10_Witness ==
    /\ LookupStep
    /\ storage.kind = "garbage"
    /\ last.lookup = "null"

\* C11: initialize uses a cache entry exactly when the entry carries the
\* version the corpus declares, a timestamp at most 7 days old (an age of
\* TTL - 1 and of TTL accepted, of TTL + 1 rejected) and as many rules as the
\* corpus; an entry that lacks one of the three is a miss.
C11_CacheEntryValidity ==
    (LoadStep /\ last.useCache /\ last.load = "ok")
        => ( last.usedCache
               <=> /\ storage.kind = "object"
                   /\ metadata.version # Undefined
                   /\ storage.version = metadata.version
                   /\ storage.hasTimestamp
                   /\ now - storage.timestamp <= maxAge
                   /\ storage.hasRules
                   /\ Len(storage.rules) = Len(normalizedRules) )

\* the slot holds rules written less than an hour before the current instant
SlotFresh == embeddingsCache.set /\ now - cacheTimestamp < CACHE_TTL

\* C12: a retrieval request that finds the slot filled less than an hour ago
\* ranks the rules of the slot and starts no generation; one that finds it
\* empty or an hour old or older sends the whole corpus to the provider
\* (unless it fails before that), and the slot holds the new rules, stamped
\* with the request's instant, before the request is answered; a failed
\* generation leaves slot and timestamp as they were.
C12_ProcessLocalCache ==
    /\ served.op = "request"
         => /\ SlotFresh
                 => /\ ~served.generating
                    /\ ~served.threw
                         => /\ requests[served.r].pc = "query"
                            /\ requests[served.r].rules = embeddingsCache.rules
            /\ ~SlotFresh
                 => /\ served.generating \/ served.threw
                    /\ served.generating
                         => /\ requests[served.r].pc = "generate"
                            /\ Len(requests[served.r].normalizedRules)
                                   = Len(corpusFile.rules)
    /\ (served.op = "generate" /\ ~served.threw)
         => /\ embeddingsCache = [set |-> TRUE, rules |-> served.generated]
            /\ Len(served.generated) = Len(corpusFile.rules)
            /\ \A i \in 1..Len(served.generated) :
                   served.generated[i].embedding \in ProviderVectors
            /\ cacheTimestamp = served.time
            /\ requests[served.r].pc = "query"
            /\ requests[served.r].rules = served.generated
    /\ (served.op = "generate" /\ served.threw)
         => /\ embeddingsCache = served.slotBefore
            /\ cacheTimestamp = served.timestampBefore
    /\ (served.op = "query" /\ served.answered) => embeddingsCache.set

C12_Witness ==
    /\ served.op = "request"
    /\ embeddingsCache.set
    /\ now - cacheTimestamp = CACHE_TTL
    /\ served.generating

\* C13: EmbeddingsReady is terminal: no step of any public operation, whatever
\* the provider answers, takes the orchestrator out of EmbeddingsReady.
C13_EmbeddingsReadyTerminal == [][embeddingsReady => embeddingsReady']_vars

\* the calls of initialize that have an embeddings request at the provider
GeneratingInitializers ==
    { p \in Callers : /\ calls[p] # Idle
                      /\ calls[p].op = "initialize"
                      /\ calls[p].pc = "embed"
                      /\ calls[p].normalized # <<>> }

\* C14: of the initialize() calls that overlap, at most one has an
\* embedding-generation run at the provider.
C14_SingleGenerationRun == Cardinality(GeneratingInitializers) <= 1

\* semanticSearch has ranked the candidates of fn without raising
Ranked == fn.op = "semanticSearch" /\ fn.done /\ ~fn.threw

\* the position among the candidates of the rule with the id of r
PositionOf(r) ==
    CHOOSE j \in 1..Len(fn.candidates) : fn.candidates[j].id = r.id

\* the score of a candidate against the query of fn
ScoreOf(c) ==
    LET r == cosineSimilarity(fn.queryEmbedding, c.embedding)
    IN  [num |-> r.num, den2 |-> r.den2, err |-> r.err]

SameScore(x, y) == ~ScoreGreater(x, y) /\ ~ScoreGreater(y, x)

\* C15: the ranking returns min(k, n) of its n candidates for k >= 0 and
\* none for k <= 0, negative k included.
C15_TopKSize ==
    Ranked
        => Len(fn.value) = IF fn.topK <= 0 THEN 0
                           ELSE Min(fn.topK, Len(fn.candidates))

\* C16: the ranking returns candidates, each with the cosine similarity of
\* query and candidate as its score, in non-increasing order of score, equal
\* scores in input order; no candidate left out would have come before a
\* returned one.
C16_RankingOrder ==
    Ranked
        => /\ \A i \in 1..Len(fn.value) :
                  /\ \E j \in 1..Len(fn.candidates) :
                         fn.candidates[j].id = fn.value[i].id
                  /\ LET c == fn.candidates[PositionOf(fn.value[i])]
                     IN  /\ fn.value[i].text = c.text
                         /\ fn.value[i].metadata = c.metadata
                         /\ fn.value[i].embedding = c.embedding
                         /\ fn.value[i].similarityScore = ScoreOf(c)
           /\ \A i \in 1..Len(fn.value), j \in 1..Len(fn.value) :
                  i < j
                    => /\ ~ScoreGreater(fn.value[j].similarityScore,
                                        fn.value[i].similarityScore)
                       /\ SameScore(fn.value[i].similarityScore,
                                    fn.value[j].similarityScore)
                            => PositionOf(fn.value[i]) < PositionOf(fn.value[j])
           /\ \A j \in 1..Len(fn.candidates), i \in 1..Len(fn.value) :
                  (\A k \in 1..Len(fn.value) : fn.value[k].id # fn.candidates[j].id)
                    => /\ ~ScoreGreater(ScoreOf(fn.candidates[j]),
                                        fn.value[i].similarityScore)
                       /\ SameScore(ScoreOf(fn.candidates[j]),
                                    fn.value[i].similarityScore)
                            => PositionOf(fn.value[i]) < j

C16_Witness ==
    /\ Ranked
    /\ Len(fn.value) = 3
    /\ PositionOf(fn.value[1]) = 3
    /\ PositionOf(fn.value[2]) = 1
    /\ PositionOf(fn.value[3]) = 2
    /\ SameScore(fn.value[2].similarityScore, fn.value[3].similarityScore)

IsZeroVector(v) == \A i \in 1..Len(v) : v[i] = 0

\* the double x is within [-1, 1]
WithinUnitInterval(x) ==
    /\ x.num * x.num <= x.den2
    /\ x.num * x.num = x.den2 => Sign(x.num) * x.err <= 0

\* the double x is 1
IsOne(x) == x.num > 0 /\ x.num * x.num = x.den2 /\ x.err = 0

\* C17: cosineSimilarity raises exactly for vectors of different lengths;
\* otherwise it returns 0 when a vector has zero magnitude, a value within
\* [-1, 1] always, and 1 for two equal nonzero vectors.
C17_CosineSimilarity ==
    (fn.op = "cosineSimilarity" /\ fn.done)
        => /\ fn.threw <=> Len(fn.vecA) # Len(fn.vecB)
           /\ ~fn.threw
                => /\ (IsZeroVector(fn.vecA) \/ IsZeroVector(fn.vecB))
                        => fn.value = [num |-> 0, den2 |-> 1, err |-> 0]
                   /\ WithinUnitInterval(fn.value)
                   /\ (fn.vecA = fn.vecB /\ ~IsZeroVector(fn.vecA))
                        => IsOne(fn.value)

\* a candidate whose vector can be compared with the query of fn
Comparable(c) == Len(c.embedding) = Len(fn.queryEmbedding)

\* C18: a candidate whose vector has another length than the query vector, or
\* that has no vector, is skipped: the ranking returns the top-K of the
\* other candidates.
C18_SkipsBadCandidate ==
    (fn.op = "semanticSearch" /\ fn.done)
        => /\ ~fn.threw
           /\ fn.value = RankRules(fn.queryEmbedding,
                                   SelectSeq(fn.candidates, Comparable),
                                   fn.topK).value

\* ceil(n / d)
CeilDiv(n, d) == (n + d - 1) \div d

\* the chunk generateEmbeddingsBatch owes as its c-th request
ChunkOf(texts, batchSize, c) ==
    [j \in 1..Min(batchSize, Len(texts) - (c - 1) * batchSize)
        |-> Trim(texts[(c - 1) * batchSize + j])]

\* C19: generateEmbeddingsBatch sends the texts in consecutive chunks of at
\* most batchSize, in input order, one request per chunk, ceil(n / batchSize)
\* requests in all, and on success returns n vectors, the i-th being the
\* provider's answer to the i-th text.
C19_BatchOrder ==
    batch.status # "none"
        => /\ Len(batch.sent) <= CeilDiv(Len(batch.texts), batch.batchSize)
           /\ \A c \in 1..Len(batch.sent) :
                  /\ batch.sent[c] = ChunkOf(batch.texts, batch.batchSize, c)
                  /\ Len(batch.sent[c]) \in 1..batch.batchSize
           /\ batch.status = "returned"
                => /\ Len(batch.sent) = CeilDiv(Len(batch.texts), batch.batchSize)
                   /\ Len(batch.value) = Len(batch.texts)
                   /\ \A i \in 1..Len(batch.texts) :
                          batch.value[i] = ProviderEmbedding(Trim(batch.texts[i]))

C19_Witness ==
    /\ batch.status = "returned"
    /\ Len(batch.texts) = 3
    /\ batch.batchSize = 2
    /\ Len(batch.sent) = 2
    /\ batch.value = << <<1, 1>>, <<1, 0>>, <<0, 1>> >>

\* C20: when the request of a chunk fails, generateEmbeddingsBatch raises:
\* it returns no list, partial or otherwise, and sends no further chunk;
\* a failed generateEmbeddings() leaves rulesWithEmbeddings and the cache
\* entry as they were.
C20_BatchFailsAtomically ==
    [][ /\ (batch.status = "request" /\ batch'.provider = "failed")
            => /\ batch'.status = "threw"
               /\ batch'.value = <<>>
               /\ batch'.sent = batch.sent
        /\ (batch.status = "threw") => batch' = batch
        /\ (calls' # calls /\ last'.settled /\ last'.provider \in {"failed", "nokey"})
            => /\ rulesWithEmbeddings' = rulesWithEmbeddings
               /\ storage' = storage ]_vars

C20_Witness ==
    /\ batch.status = "threw"
    /\ batch.provider = "failed"
    /\ batch.embeddings # <<>>
    /\ batch.i + batch.batchSize < Len(batch.texts)
    /\ last.op = "generateEmbeddings"
    /\ last.settled
    /\ last.provider = "failed"
    /\ rulesWithEmbeddings = EmbeddedAB
    /\ storage # Absent

\* the severities a context selects
WantedSeverities(context) ==
    IF context.severity # "" THEN {context.severity} ELSE {"high", "medium"}

\* the rule satisfies every criterion the context gives
Satisfies(rule, context) ==
    /\ rule.metadata.severity \in WantedSeverities(context)
    /\ context.contractType # ""
         => \E i \in 1..Len(rule.metadata.contract_types) :
                rule.metadata.contract_types[i] = context.contractType
    /\ context.category # <<>> => rule.metadata.category = context.category

\* the positions in the normalized corpus of the rule at position i of arr
CorpusPositions(arr, i) ==
    { j \in 1..Len(normalizedRules) : normalizedRules[j] = arr[i] }

\* C21: getRelevantRules returns exactly the normalized rules that satisfy
\* every criterion given (contract type, severity, category), an unspecified
\* severity standing for high or medium; a low-severity rule is returned only
\* when low is asked for; an orchestrator that is not loaded answers [].
C21_StaticFilter ==
    fn.op = "getRelevantRules"
        => /\ ~isLoaded => fn.value = <<>>
           /\ isLoaded
                => /\ \A j \in 1..Len(normalizedRules) :
                          Satisfies(normalizedRules[j], fn.context)
                            <=> \E i \in 1..Len(fn.value) : fn.value[i] = normalizedRules[j]
                   /\ \A i \in 1..Len(fn.value) : CorpusPositions(fn.value, i) # {}
                   /\ \A i \in 1..Len(fn.value) :
                          fn.value[i].metadata.severity = "low" => fn.context.severity = "low"

C21_Witness ==
    /\ fn.op = "getRelevantRules"
    /\ isLoaded
    /\ Len(normalizedRules) = 3
    /\ fn.context = [severity |-> "", contractType |-> "MSA", category |-> <<"c">>]
    /\ Len(fn.value) = 1
    /\ fn.value[1].metadata.severity = "medium"

\* C22: the list getRelevantRules returns is in corpus order, whatever the
\* context, and holds no rule twice.
C22_CorpusOrder ==
    fn.op = "getRelevantRules"
        => \A i \in 1..Len(fn.value), k \in 1..Len(fn.value) :
               i < k => \E a \in CorpusPositions(fn.value, i),
                           b \in CorpusPositions(fn.value, k) : a < b

\* the positions at which q occurs in str
Occurrences(str, q) ==
    { k \in 1..(Len(str) - Len(q) + 1) : SubSeq(str, k, k + Len(q) - 1) = q }

\* the heading of block i up to the rule id
BlockLabel(i) == contextLabels.heading \o DecimalDigits(i) \o <<":", " ">>

\* the part of the rendered context from the heading of block i up to the
\* heading of block i + 1
BlockText(i) ==
    LET from == CHOOSE k \in Occurrences(fn.value, BlockLabel(i)) : TRUE
        next == Occurrences(fn.value, BlockLabel(i + 1))
    IN  SubSeq(fn.value, from,
               IF next = {} THEN Len(fn.value) ELSE (CHOOSE k \in next : TRUE) - 1)

\* C23: buildSemanticContext returns the empty string exactly when the
\* search returned no rule; otherwise one block per returned rule, in the
\* order returned, at most maxRules of them, each with the rule's id, text,
\* severity and contract types.
C23_ContextBlocks ==
    fn.op = "buildSemanticContext"
        => /\ fn.value = <<>> <=> Len(fn.relevantRules) = 0
           /\ Cardinality(Occurrences(fn.value, contextLabels.heading)) = Len(fn.relevantRules)
           /\ Len(fn.relevantRules) > 0
                => /\ Len(fn.relevantRules) <= fn.maxRules
                   /\ \A i \in 1..Len(fn.relevantRules) :
                          LET rule == fn.relevantRules[i]
                          IN  /\ Cardinality(Occurrences(fn.value, BlockLabel(i))) = 1
                              /\ Includes(BlockText(i), BlockLabel(i) \o rule.id)
                              /\ Includes(BlockText(i), rule.text)
                              /\ Includes(BlockText(i),
                                          contextLabels.severity \o Chars(rule.metadata.severity))
                              /\ \A j \in 1..Len(rule.metadata.contract_types) :
                                     Includes(BlockText(i),
                                              Chars(rule.metadata.contract_types[j]))

\* similarityScore * 100 to one decimal, a missing score counting as 0
ScorePercent(rule) ==
    IF "similarityScore" \in DOMAIN rule
    THEN relevancePercent(rule)
    ELSE <<"0", ".", "0">>

\* C28: every block buildSemanticContext renders carries the relevance
\* percentage similarityScore * 100 as a number, also for results of the
\* keyword fallback, whose similarity counts as 0: never NaN or undefined.
C28_RelevancePercent ==
    fn.op = "buildSemanticContext"
        => \A i \in 1..Len(fn.relevantRules) :
               /\ Includes(BlockText(i),
                           <<"(">> \o ScorePercent(fn.relevantRules[i]) \o contextLabels.relevant)
               /\ ~Includes(BlockText(i), <<"N", "a", "N">> \o contextLabels.relevant)
               /\ ~Includes(BlockText(i), sUndefined \o contextLabels.relevant)

\* C24: without a provider key initialize(useCache) on a valid corpus still
\* loads the rules and succeeds, embeddingsReady stays false, whatever the
\* cache holds, and every search on the loaded corpus is answered by the
\* keyword filter.
C24_NoCredentialDegrades ==
    ~openaiKey
        => /\ (last.op = "initialize" /\ last.settled /\ last.load = "ok")
                => /\ last.ok
                   /\ isLoaded
                   /\ ~embeddingsReady
           /\ (last.op = "searchRelevantRules" /\ last.preLoaded)
                => last.result = keywordFallback(This, last.query, last.topK)

\* C29: whenever embeddingsReady is true the orchestrator is loaded and
\* rulesWithEmbeddings has one entry per normalized rule, with the same ids
\* in the same order, each with an embedding vector.
C29_ReadyMeansEmbedded ==
    embeddingsReady
        => /\ isLoaded
           /\ Len(rulesWithEmbeddings) = Len(normalizedRules)
           /\ \A i \in 1..Len(rulesWithEmbeddings) :
                  /\ i <= Len(normalizedRules)
                       => rulesWithEmbeddings[i].id = normalizedRules[i].id
                  /\ rulesWithEmbeddings[i].embedding # <<>>

\* the lines the normalized text of a record is to consist of
ExpectedLines(rule) ==
    <<sRulePrefix \o rule.rule>>
    \o (IF rule.bad_example # <<>> THEN <<sBadPrefix \o rule.bad_example>> ELSE <<>>)
    \o (IF rule.good_example # <<>> THEN <<sGoodPrefix \o rule.good_example>> ELSE <<>>)
    \o (IF rule.explanation # <<>> THEN <<sExplPrefix \o rule.explanation>> ELSE <<>>)

\* C25: for a record with a rule text, the client normalizer and the
\* normalizer of the function both give the text made of the lines
\* 'Rule: ', 'Bad example: ', 'Good example: ', 'Explanation: ' in this
\* order, joined by newlines, a line being there exactly when its field is,
\* and nothing else; the id is the rule_id.
C25_NormalizedText ==
    (fn.op = "normalizeRule" /\ fn.done /\ fn.rule.rule # <<>>)
        => /\ fn.client.text = JoinLines(ExpectedLines(fn.rule))
           /\ fn.client.id = fn.rule.rule_id
           /\ fn.server.text = JoinLines(ExpectedLines(fn.rule))
           /\ fn.server.id = fn.rule.rule_id

\* the requirements on a single record
MeetsRequirements(rule) ==
    /\ rule.rule_id # <<>>
    /\ rule.rule # <<>>
    /\ rule.severity \in {"low", "medium", "high"}
    /\ rule.contract_types # <<>>

\* C26: the records loadLegalRules lets through each have a rule_id that no
\* other surviving record has, a rule text, a severity among low, medium,
\* high and at least one contract type; a record is let through exactly when
\* it meets the requirements on a single record.
C26_SurvivingRecords ==
    (fn.op = "loadLegalRules" /\ fn.done)
        => /\ \A i \in 1..Len(fn.value.rules) : MeetsRequirements(fn.value.rules[i])
           /\ \A i \in 1..Len(fn.value.rules), j \in 1..Len(fn.value.rules) :
                  i # j => fn.value.rules[i].rule_id # fn.value.rules[j].rule_id
           /\ \A i \in 1..Len(fn.data.rules) :
                  MeetsRequirements(fn.data.rules[i])
                    <=> \E j \in 1..Len(fn.value.rules) :
                            fn.value.rules[j] = fn.data.rules[i]

\* C27: a session whose semantic search was requested and failed gets the
\* instructions of the static filter by contract type, and so does every
\* session that did not request the semantic search.
C27_SessionFallsBackToStatic ==
    (fn.op = "session" /\ fn.statusCode = 200)
        => /\ (SemanticRequested(fn.body) /\ fn.searchThrew)
                => fn.instructions = buildLegalSystemInstructions(fn.body.contractType)
           /\ ~SemanticRequested(fn.body)
                => fn.instructions = buildLegalSystemInstructions(fn.body.contractType)

\* C30: a call of generateEmbeddingsBatch that has sent a request returns or
\* raises in the end, for every batchSize, provided every provider call
\* settles.
C30_BatchTerminates ==
    (batch.status \in {"request", "delay"}) ~> (batch.status \in {"returned", "threw"})

====
